---- MODULE Spec2Model ----
(***************************************************************************)
(* Deduction UI: the model-run stream decoder (App.tsx, handleModelRun),   *)
(* the chat transcript assembler (GameScreen.tsx,                          *)
(* handleSendMessageToModel) and the session controller (App.tsx).         *)
(***************************************************************************)
EXTENDS Integers, Sequences, FiniteSets, TLC

(***************************************************************************)
(* Bounds of the model.                                                    *)
(***************************************************************************)
\* segments (delimiter-separated pieces) of a response body, SpecDecoder
MaxSegs == 3
\* bytes delivered by one reader.read(), SpecDecoder
MaxChunk == 4
\* messages sent, SpecTurn and SpecChat
MaxSends == 2
\* reads of response bodies, SpecTurn
MaxReads == 4
\* reads of response bodies, SpecChat
ChatReads == 2
\* messages sent and reads of response bodies, SpecSession
SessionSends == 1
SessionReads == 1
\* the stage held by the controller, SpecAnyServer
MaxHeldStage == 5

(***************************************************************************)
(* The wire.  A response body is a sequence of bytes.  The bytes of the    *)
(* model are the record separator, a blank, the punctuation and the        *)
(* letters of a miniature JSON, and the two bytes of one two-byte UTF-8    *)
(* character.                                                              *)
(***************************************************************************)
NULL == "null"

\* const STREAM_CHUNK_DELIMITER = "\u001E"
STREAM_CHUNK_DELIMITER == "RS"

WS == " "

\* U+FFFD, what a TextDecoder (fatal: false) gives for a malformed sequence
REPLACEMENT == "FFFD"

\* the UTF-8 encoding of the letter "é": a lead byte and a continuation byte
LeadByte == "C3"
ContByte == "A9"

RECURSIVE Utf8Decode(_, _)
\* decoder.decode(value, {stream: true}): `lead` says whether the decoder
\* holds a lead byte from the previous call.  Gives the text decoded so far
\* and the new decoder state; an incomplete sequence at the end of the
\* fragment is kept for the next call.
Utf8Decode(lead, bytes) ==
    IF bytes = <<>> THEN [text |-> <<>>, lead |-> lead]
    ELSE LET b == Head(bytes) IN
         IF lead
         THEN IF b = ContByte
              THEN LET r == Utf8Decode(FALSE, Tail(bytes))
                   IN  [text |-> <<"é">> \o r.text, lead |-> r.lead]
              ELSE LET r == Utf8Decode(FALSE, bytes)
                   IN  [text |-> <<REPLACEMENT>> \o r.text, lead |-> r.lead]
         ELSE IF b = LeadByte
              THEN Utf8Decode(TRUE, Tail(bytes))
              ELSE LET r == Utf8Decode(FALSE, Tail(bytes))
                   IN  [text |-> <<(IF b = ContByte THEN REPLACEMENT ELSE b)>> \o r.text,
                        lead |-> r.lead]

RECURSIVE Split(_, _)
\* String.prototype.split(separator): never empty, "" gives [""]
Split(s, sep) ==
    IF \A i \in 1..Len(s) : s[i] # sep THEN <<s>>
    ELSE LET i == CHOOSE j \in 1..Len(s) :
                      s[j] = sep /\ \A k \in 1..(j-1) : s[k] # sep
         IN  <<SubSeq(s, 1, i-1)>> \o Split(SubSeq(s, i+1, Len(s)), sep)

RECURSIVE TrimStart(_)
TrimStart(s) == IF s # <<>> /\ Head(s) = WS THEN TrimStart(Tail(s)) ELSE s

RECURSIVE TrimEnd(_)
TrimEnd(s) ==
    IF s # <<>> /\ s[Len(s)] = WS THEN TrimEnd(SubSeq(s, 1, Len(s)-1)) ELSE s

\* String.prototype.trim()
Trim(s) == TrimEnd(TrimStart(s))

(***************************************************************************)
(* The miniature JSON.  A text is an object "{" type delta "}", with       *)
(* insignificant blanks between the tokens, or the scalar "7".  The type   *)
(* letter stands for the "type" member and the delta letter for the        *)
(* "delta" (or "error") member of a stream record.                         *)
(***************************************************************************)
TypeLetters == {"k", "t", "e", "d", "u"}
DeltaLetters == {"a", "b", "c", "d", "e", "f", "é", REPLACEMENT}

\* the "type" member a type letter stands for; "u" is a record with no type
TypeOf(c) ==
    CASE c = "k" -> "thinking"
      [] c = "t" -> "text"
      [] c = "e" -> "error"
      [] c = "d" -> "delta"
      [] OTHER   -> NULL

Tokens(s) == SelectSeq(s, LAMBDA c : c # WS)

\* whether JSON.parse(s) returns (it throws a SyntaxError otherwise)
JsonValid(s) ==
    LET t == Tokens(s) IN
    \/ t = <<"7">>
    \/ /\ Len(t) >= 3
       /\ t[1] = "{" /\ t[Len(t)] = "}"
       /\ t[2] \in TypeLetters
       /\ \A i \in 3..(Len(t)-1) : t[i] \in DeltaLetters

\* JSON.parse(s), for a valid s: the scalar, or the record with its type
\* and its delta (a string: the sequence of its letters)
JsonParse(s) ==
    LET t == Tokens(s) IN
    IF t = <<"7">> THEN [type |-> "scalar", delta |-> <<>>]
    ELSE [type |-> TypeOf(t[2]), delta |-> SubSeq(t, 3, Len(t)-1)]

(***************************************************************************)
(* The stream generator of handleModelRun, as the steps between its        *)
(* suspension points: the await of reader.read() and the yields.           *)
(***************************************************************************)
IsBlank(part) == Trim(part) = <<>>

RECURSIVE SkipBlank(_)
\* for (const part of parts) if (part.trim()) ...: blank parts are passed over
SkipBlank(ps) ==
    IF ps # <<>> /\ IsBlank(Head(ps)) THEN SkipBlank(Tail(ps)) ELSE ps

\* decoder.decode(value, {stream: true})
DecodeChunk(lead, bytes) == Utf8Decode(lead, bytes)

\* mutant: the remainder after the last delimiter is dropped
PopLast_Dropped(ps) == <<>>

\* buffer = parts.pop() || ""
PopLast(ps) == ps[Len(ps)]

\* a read that is not done: buffer += decode(value); parts = buffer.split(..);
\* buffer = parts.pop() || ""
ReadStep(buf, lead, bytes) ==
    LET d  == DecodeChunk(lead, bytes)
        ps == Split(buf \o d.text, STREAM_CHUNK_DELIMITER)
    IN  [buffer |-> PopLast(ps),
         parts  |-> SkipBlank(SubSeq(ps, 1, Len(ps) - 1)),
         lead   |-> d.lead]

\* mutant: a text that does not parse is yielded raw instead of thrown
ParseStep_Lenient(text) ==
    IF JsonValid(Trim(text))
    THEN [kind |-> "yield", value |-> JsonParse(Trim(text))]
    ELSE [kind |-> "yield", value |-> [type |-> "raw", delta |-> Trim(text)]]

\* what the generator does with a non-blank text: yield JSON.parse(text.trim()),
\* or let the SyntaxError of JSON.parse propagate
ParseStep(text) ==
    IF JsonValid(Trim(text))
    THEN [kind |-> "yield", value |-> JsonParse(Trim(text))]
    ELSE [kind |-> "throw", value |-> [type |-> "SyntaxError", delta |-> <<>>]]

\* mutant: what is left in the buffer when the stream ends is not flushed
EofStep_NoFlush(buf) ==
    [kind |-> "return", value |-> [type |-> "none", delta |-> <<>>]]

\* the read that is done: if (buffer.trim()) yield JSON.parse(buffer.trim()); break
EofStep(buf) ==
    IF IsBlank(buf)
    THEN [kind |-> "return", value |-> [type |-> "none", delta |-> <<>>]]
    ELSE ParseStep(buf)

(***************************************************************************)
(* State.                                                                  *)
(***************************************************************************)
VARIABLES
    \* the stream generator returned by handleModelRun
    buffer,     \* let buffer
    parts,      \* the parts of the last split the for-of loop has yet to visit
    lead,       \* the TextDecoder holds a lead byte
    gen,        \* "idle", "read" (awaiting reader.read()), "parts" (in the
                \* for-of loop), "done" (returned), "threw"
    reader,     \* "none", "locked", "released" (reader.releaseLock())
    \* the response body and what the consumer of the generator has seen
    wire,       \* the bytes of the response body
    pos,        \* how many of them reader.read() has delivered
    yielded,    \* the values the generator has yielded, in order
    midCut,     \* a fragment has ended inside a segment (history)
    \* App (App.tsx): the React state of the session controller
    currentUser,            \* NoUser or [id, name, current_stage]
    currentQuestion,        \* NoQuestion or [id]
    models,                 \* NULL or "loaded"
    currentView,            \* GameView
    isLoading,
    isAttemptingAutoJoin,
    error,                  \* NULL or a message
    isJoinDialogOpen,
    actionLoading,
    snackbar,               \* NULL (closed) or the message shown
    persistedUserName,
    isNewGameMode,
    inputError,             \* JoinDialog: NULL or the field-level message
    \* the browser and the calls in flight
    localStorage,           \* the value under LOCAL_STORAGE_USER_NAME_KEY, or NULL
    initPc,                 \* initializeApp: "idle", "models", "autojoin"
    effectMode,             \* isNewGameMode as of the last run of the effect
    joinReq,                \* NoJoin or the body of the POST /join in flight
    attemptReq,             \* NoAttempt or the body of the POST /attempt in flight
    lastEvent,              \* the last handler of App that ran (history)
    lastResponse,           \* the last 2xx response App received (history)
    replayed,               \* Play Again has run and no join has succeeded
                            \* since (history)
    \* the backend
    srvStage,               \* display name -> current stage of that user
    srvMode,                \* "consistent", or "any" well-typed response
    \* GameScreen (GameScreen.tsx): its React state
    chatMessages,           \* the rendered transcript
    pending,                \* updaters queued by setChatMessages, not yet run
    isModelStreaming,
    selectedModel,
    \* the running handleSendMessageToModel: its position and its locals
    turn,                   \* "idle", "fetch", "stream"
    assistantResponseId,
    thinkingMessageId,
    currentAssistantMessage,
    stamp,                  \* Date.now() of the last thinking id, as a rank
    turnRecs,               \* the records the turn has received (history)
    turnQuestion,           \* the question held when the turn started (history)
    sends,                  \* messages sent so far
    reads                   \* reads of response bodies so far

genVars == <<buffer, parts, lead, gen, reader>>
wireVars == <<wire, pos, yielded, midCut>>
appVars == <<currentUser, currentQuestion, models, currentView, isLoading,
             isAttemptingAutoJoin, error, isJoinDialogOpen, actionLoading,
             snackbar, persistedUserName, isNewGameMode, inputError>>
envVars == <<localStorage, initPc, effectMode, joinReq, attemptReq, lastEvent,
            lastResponse, replayed>>
srvVars == <<srvStage, srvMode>>
screenVars == <<chatMessages, pending, isModelStreaming, selectedModel>>
turnVars == <<turn, assistantResponseId, thinkingMessageId,
              currentAssistantMessage, stamp, turnRecs, turnQuestion>>
countVars == <<sends, reads>>
chatVars == <<screenVars, turnVars, countVars>>
vars == <<genVars, wireVars, appVars, envVars, srvVars, chatVars>>

(***************************************************************************)
(* The session controller: App.tsx.                                        *)
(***************************************************************************)
\* export const MAX_STAGES = 3
MAX_STAGES == 3

\* the display names a user types or the store remembers
Names == {"Ada", "Bob"}

\* what can be typed into the name field: a name, blanks, 31 characters
\* and a name with blanks around it, a name followed by 28 blanks
TypedNames == Names \cup {"   ", "ThirtyOneCharactersLongNameXXXX", " Ada ",
                          "Bob                            "}

\* what can be typed into the answer field
TypedAnswers == {"", "  ", " 42 "}

\* String.prototype.trim() of the text of a field
RECURSIVE TrimTextStart(_)
TrimTextStart(t) ==
    IF Len(t) > 0 /\ SubSeq(t, 1, 1) = " "
    THEN TrimTextStart(SubSeq(t, 2, Len(t))) ELSE t

RECURSIVE TrimTextEnd(_)
TrimTextEnd(t) ==
    IF Len(t) > 0 /\ SubSeq(t, Len(t), Len(t)) = " "
    THEN TrimTextEnd(SubSeq(t, 1, Len(t) - 1)) ELSE t

TrimText(t) == TrimTextEnd(TrimTextStart(t))

\* !name.trim(), !answer.trim()
IsBlankName(n) == TrimText(n) = ""
IsBlankAnswer(a) == TrimText(a) = ""

\* mutant: the length of a name is not looked at
NameLength_Unread(n) == 0
\* name.length
NameLength(n) == Len(n)

\* the values of the nullable state: no user, no question, no call in flight
NoUser == [id |-> NULL, name |-> NULL, current_stage |-> 0]
NoQuestion == [id |-> <<>>]
NoJoin == [name |-> NULL, start_new |-> FALSE, auto |-> FALSE]
NoAttempt == [user_id |-> NULL, answer |-> NULL]

\* the last 2xx response of POST /join or POST /attempt (history)
NoResponse ==
    [kind |-> "none", correct |-> FALSE, victory |-> FALSE,
     question |-> NoQuestion, stage |-> 0]

JoinRecord(data) ==
    [kind |-> "join", correct |-> FALSE, victory |-> FALSE,
     question |-> data.question, stage |-> data.user.current_stage]

AttemptRecord(data) ==
    [kind |-> "attempt", correct |-> data.correct, victory |-> data.victory,
     question |-> data.question, stage |-> 0]

\* the puzzles the backend holds for a stage
Variants == {"a", "b"}
QuestionsOf(stage) == { [id |-> <<stage, v>>] : v \in Variants }

\* the state of the component App after its first render and the
\* synchronous part of initializeApp: GET /models is in flight
AppConstructed ==
    /\ currentUser = NoUser
    /\ currentQuestion = NoQuestion
    /\ models = NULL
    /\ currentView = "loading"
    /\ isLoading = TRUE
    /\ isAttemptingAutoJoin = FALSE
    /\ error = NULL
    /\ isJoinDialogOpen = FALSE
    /\ actionLoading = FALSE
    /\ snackbar = NULL
    /\ persistedUserName = NULL
    /\ isNewGameMode = FALSE
    /\ inputError = NULL
    /\ initPc = "models"
    /\ effectMode = FALSE
    /\ joinReq = NoJoin
    /\ attemptReq = NoAttempt
    /\ lastEvent = "initializeApp"
    /\ lastResponse = NoResponse
    /\ replayed = FALSE

(***************************************************************************)
(* What App renders.                                                       *)
(***************************************************************************)
\* renderInitialLoadOrError() returns a screen
InitialScreen ==
    \/ currentView = "attemptingAutoJoin"
    \/ (isLoading /\ isAttemptingAutoJoin)
    \/ (isLoading /\ currentView = "loading")
    \/ (currentView = "error" /\ error # NULL)

JoinDialogShown ==
    /\ ~InitialScreen
    /\ isJoinDialogOpen /\ currentView = "joining" /\ models # NULL

MainLayoutShown ==
    /\ ~InitialScreen
    /\ ~isJoinDialogOpen /\ currentUser # NoUser /\ models # NULL
    /\ currentView \notin {"loading", "attemptingAutoJoin"}

\* MainLayout.renderCurrentView, case "playing" with a question
GameScreenShown ==
    MainLayoutShown /\ currentView = "playing" /\ currentQuestion # NoQuestion

\* the Submit Answer button: disabled={currentLoading || !answer.trim()},
\* isSubmitting being set while the request of the dialog is in flight
SubmitEnabled(answer) ==
    /\ ~(actionLoading \/ attemptReq # NoAttempt)
    /\ ~IsBlankAnswer(answer)

\* MainLayout.renderCurrentView, case "victory"
VictoryScreenShown == MainLayoutShown /\ currentView = "victory"

\* the effect of App has run for the current handleJoinGame: React runs a
\* pending effect before it handles the next event
EffectsFlushed == effectMode = isNewGameMode

(***************************************************************************)
(* The backend, as the specification describes its operations.             *)
(***************************************************************************)
\* the puzzle served to a user at `stage`: none once all stages are cleared
ServedQuestions(stage) ==
    IF stage > MAX_STAGES THEN {NoQuestion} ELSE QuestionsOf(stage)

\* POST /join: the stage the user is at after the call
SrvJoinStage(name, startNew) == IF startNew THEN 1 ELSE srvStage[name]

\* POST /join, 2xx: { user, question }
SrvJoinResponses(name, startNew) ==
    { [user |-> [id |-> name, name |-> name,
                 current_stage |-> SrvJoinStage(name, startNew)],
       question |-> q] : q \in ServedQuestions(SrvJoinStage(name, startNew)) }

\* POST /attempt, 2xx, the answer being right: the user moves to the next stage
SrvCorrectResponses(name) ==
    { [correct |-> TRUE, victory |-> srvStage[name] + 1 > MAX_STAGES,
       question |-> q] : q \in ServedQuestions(srvStage[name] + 1) }

\* POST /attempt, 2xx, the answer being wrong: a puzzle of the same stage,
\* or none
SrvIncorrectResponses(name) ==
    { [correct |-> FALSE, victory |-> FALSE, question |-> q] :
        q \in ServedQuestions(srvStage[name]) \cup {NoQuestion} }

\* POST /join and POST /attempt, 2xx, of a backend of which only the types
\* of the responses are known (JoinResponse, AttemptResponse in types.ts)
AllQuestions == UNION { QuestionsOf(s) : s \in 1..MAX_STAGES }

AnyJoinResponses(name) ==
    { [user |-> [id |-> name, name |-> name, current_stage |-> s],
       question |-> q] :
        s \in 1..(MAX_STAGES + 1), q \in AllQuestions \cup {NoQuestion} }

AnyAttemptResponses ==
    { [correct |-> c, victory |-> v, question |-> q] :
        c \in BOOLEAN, v \in BOOLEAN, q \in AllQuestions \cup {NoQuestion} }

JoinResponses(name, startNew) ==
    IF srvMode = "consistent" THEN SrvJoinResponses(name, startNew)
    ELSE AnyJoinResponses(name)

AttemptResponses(name) ==
    IF srvMode = "consistent"
    THEN IF srvStage[name] <= MAX_STAGES
         THEN SrvCorrectResponses(name) \cup SrvIncorrectResponses(name)
         ELSE {}
    ELSE AnyAttemptResponses

\* the stage the backend holds for the user after it has sent `data`
SrvStageAfterJoin(name, data) ==
    IF srvMode = "consistent"
    THEN [srvStage EXCEPT ![name] = data.user.current_stage]
    ELSE srvStage

SrvStageAfterAttempt(name, data) ==
    IF srvMode = "consistent" /\ data.correct
    THEN [srvStage EXCEPT ![name] = srvStage[name] + 1]
    ELSE srvStage

(***************************************************************************)
(* The chat transcript: GameScreen.tsx.  An entry is a ChatMessage; its id *)
(* is a prefix, the number of the turn and, for a thinking entry, the rank *)
(* of its Date.now().  A text is a sequence of letters.                    *)
(***************************************************************************)
NoId == <<"null", 0, 0>>

ModelNames == {"m1", "m2"}

Entry(id, role, content, isThinking) ==
    [id |-> id, role |-> role, content |-> content, isThinking |-> isThinking]

\* the argument of a setChatMessages call: an updater function, told by its
\* place in the source, with the constants it closed over
Updater(op, delta, value) == [op |-> op, delta |-> delta, value |-> value]

\* setChatMessages((prev) => [...prev, message]), lines 102, 187, 218
AppendMessage(m) == Updater("append", <<>>, <<m>>)
\* lines 118-126
NewThinking(delta) == Updater("newThinking", delta, <<>>)
\* lines 128-139
ExtendThinking(delta) == Updater("extendThinking", delta, <<>>)
\* lines 145-151, 198-204, 231-237
Seal == Updater("seal", <<>>, <<>>)
\* lines 154-181
TextUpdate == Updater("text", <<>>, <<>>)
\* a state computed when setChatMessages was called, or setChatMessages([])
SetTo(msgs) == Updater("set", <<>>, msgs)

MapSeq(s, F(_)) == [i \in 1..Len(s) |-> F(s[i])]

\* prev.map((m) => m.id === thinkingMessageId ? {...m, isThinking: false} : m)
SealEntries(prev, tmid) ==
    MapSeq(prev, LAMBDA m : IF m.id = tmid
                            THEN [m EXCEPT !.isThinking = FALSE] ELSE m)

\* the updater of the text branch, lines 154-181
TextEntries(prev, aid, tmid, cam) ==
    IF prev # <<>> /\ prev[Len(prev)].id = aid
                   /\ prev[Len(prev)].role = "assistant"
    THEN MapSeq(prev, LAMBDA m : IF m.id = aid
                                 THEN [m EXCEPT !.content = cam] ELSE m)
    ELSE SelectSeq(prev, LAMBDA m : m.id # tmid)
            \o <<Entry(aid, "assistant", cam, FALSE)>>

\* an updater runs: the locals of the turn it closed over (assistantResponseId,
\* thinkingMessageId, currentAssistantMessage) have the values they have when
\* it runs
Apply(u, prev, aid, tmid, cam) ==
    CASE u.op = "set" -> u.value
      [] u.op = "append" -> prev \o u.value
      [] u.op = "newThinking" ->
            Append(prev, Entry(tmid, "thinking", u.delta, TRUE))
      [] u.op = "extendThinking" ->
            MapSeq(prev, LAMBDA m :
                IF m.id = tmid
                THEN [m EXCEPT !.content = m.content \o u.delta,
                               !.isThinking = TRUE]
                ELSE m)
      [] u.op = "seal" -> SealEntries(prev, tmid)
      [] u.op = "text" -> TextEntries(prev, aid, tmid, cam)

RECURSIVE ApplyAll(_, _, _, _, _)
ApplyAll(q, prev, aid, tmid, cam) ==
    IF q = <<>> THEN prev
    ELSE ApplyAll(Tail(q), Apply(Head(q), prev, aid, tmid, cam), aid, tmid, cam)

\* setChatMessages(u).  React runs an updater during the next render; when no
\* update is queued it may run it at once, on the rendered state, and queue
\* the result.
Enqueue(q, u, aid, tmid, cam) ==
    IF q = <<>>
    THEN {<<u>>, <<SetTo(Apply(u, chatMessages, aid, tmid, cam))>>}
    ELSE {Append(q, u)}

\* `thinking-${Date.now()}`: the clock has moved on since the last thinking id
\* of the turn, or it has not
ThinkingIds ==
    { <<"thinking", sends, k>> :
        k \in (IF stamp = 0 THEN {1} ELSE {stamp, stamp + 1}) }

\* `Error from AI: ${typedChunk.error || typedChunk.delta}`
ErrorContent(rec) == <<"Error from AI: ">> \o rec.delta

\* the record handleModelRun yields when the request failed:
\* { type: "error", error: { message } }, an object where a string is expected
SyntheticError == [type |-> "error", delta |-> <<"[object Object]">>]

\* the locals of the turn and the queue, as one value
TurnState(q, tmid, cam, st, stop) ==
    [pending |-> q, tmid |-> tmid, cam |-> cam, stamp |-> st, stop |-> stop]

\* the body of the for await loop for one chunk, lines 111-214: the outcomes
ConsumeOutcomes(rec, q, aid, tmid, cam) ==
    CASE rec.type = "thinking" /\ tmid = NoId ->
            UNION { { TurnState(q1, id, cam, id[3], FALSE) :
                        q1 \in Enqueue(q, NewThinking(rec.delta), aid, id, cam) }
                    : id \in ThinkingIds }
      [] rec.type = "thinking" /\ tmid # NoId ->
            { TurnState(q2, tmid, cam, stamp, FALSE) :
                q2 \in Enqueue(q, ExtendThinking(rec.delta), aid, tmid, cam) }
      [] rec.type = "text" /\ tmid # NoId ->
            { TurnState(Append(q1, TextUpdate), NoId, cam \o rec.delta,
                        stamp, FALSE) :
                q1 \in Enqueue(q, Seal, aid, tmid, cam \o rec.delta) }
      [] rec.type = "text" /\ tmid = NoId ->
            { TurnState(q1, NoId, cam \o rec.delta, stamp, FALSE) :
                q1 \in Enqueue(q, TextUpdate, aid, NoId, cam \o rec.delta) }
      [] rec.type = "error" ->
            { TurnState(IF tmid # NoId THEN Append(q1, Seal) ELSE q1,
                        NoId, cam, stamp, TRUE) :
                q1 \in Enqueue(q, AppendMessage(
                          Entry(<<"error", sends, 0>>, "assistant",
                                ErrorContent(rec), FALSE)),
                        aid, tmid, cam) }
      [] OTHER -> { TurnState(q, tmid, cam, stamp, FALSE) }

\* the catch block, lines 216-227
ChatErrorEntry ==
    Entry(<<"error", sends, 0>>, "assistant",
          <<"Chat Error: ", "SyntaxError">>, FALSE)

\* the finally block, lines 228-239, after setIsModelStreaming(false)
FinallyQueue(q, tmid) == IF tmid # NoId THEN Append(q, Seal) ELSE q

\* GameScreen as it is constructed (useState initial values), no turn running
ScreenConstructed ==
    /\ chatMessages = <<>>
    /\ pending = <<>>
    /\ isModelStreaming = FALSE
    /\ selectedModel = "m1"
    /\ turn = "idle"
    /\ assistantResponseId = NoId
    /\ thinkingMessageId = NoId
    /\ currentAssistantMessage = <<>>
    /\ stamp = 0
    /\ turnRecs = <<>>
    /\ turnQuestion = NoQuestion

NoStream ==
    /\ buffer = <<>>
    /\ parts = <<>>
    /\ lead = FALSE
    /\ gen = "idle"
    /\ reader = "none"

\* GameScreen is not rendered, or is rendered anew: its state is the
\* constructed one.  A turn that was running goes on without a component to
\* update; the model drops it.
ScreenReset ==
    /\ chatMessages' = <<>>
    /\ pending' = <<>>
    /\ isModelStreaming' = FALSE
    /\ selectedModel' = "m1"
    /\ turn' = "idle"
    /\ assistantResponseId' = NoId
    /\ thinkingMessageId' = NoId
    /\ currentAssistantMessage' = <<>>
    /\ stamp' = 0
    /\ turnRecs' = <<>>
    /\ turnQuestion' = NoQuestion
    /\ buffer' = <<>>
    /\ parts' = <<>>
    /\ lead' = FALSE
    /\ gen' = "idle"
    /\ reader' = "none"

\* what a handler of App does to GameScreen: the component is unmounted or
\* mounted with the view; while it stays mounted, a new question object runs
\* the effect on [question], lines 51-56, after the render that ran the
\* queued updaters
ScreenFollows(questionSet) ==
    /\ UNCHANGED <<wireVars, countVars>>
    /\ IF GameScreenShown /\ GameScreenShown'
       THEN /\ UNCHANGED <<genVars, turnVars, isModelStreaming, selectedModel>>
            /\ IF questionSet
               THEN chatMessages' = <<>> /\ pending' = <<>>
               ELSE UNCHANGED <<chatMessages, pending>>
       ELSE ScreenReset

\* the generator after it has passed a yield
AfterYield(ps) ==
    LET rest == SkipBlank(ps)
    IN  /\ parts' = rest
        /\ gen' = IF rest = <<>> THEN "read" ELSE "parts"

\* mutant: the lock is released at the end of the stream and on a throw,
\* not when the consumer stops the generator
GenEnd_HeldOnReturn(how) ==
    /\ gen' = how
    /\ reader' = IF how = "returned" THEN reader ELSE "released"

\* the generator ends, by return or by throw: finally { reader.releaseLock() }
GenEnd(how) ==
    /\ gen' = how
    /\ reader' = "released"

(***************************************************************************)
(* handleJoinGame.                                                         *)
(***************************************************************************)

\* mutant: the completed game is taken to start at the last stage
ViewAfterJoin_AtLastStage(data) ==
    IF data.user.current_stage >= MAX_STAGES THEN "victory"
    ELSE IF data.question # NoQuestion THEN "playing"
    ELSE "victory"

\* if (data.user.current_stage > MAX_STAGES) ... else if (data.question) ...
ViewAfterJoin(data) ==
    IF data.user.current_stage > MAX_STAGES THEN "victory"
    ELSE IF data.question # NoQuestion THEN "playing"
    ELSE "victory"

\* mutant: start_new is always asked for
StartNewSession_Always(startNew, mode) == TRUE

\* mutant: start_new is never asked for
StartNewSession_Never(startNew, mode) == FALSE

\* const startNewSession = options?.startNew || isNewGameMode, `mode` being
\* the isNewGameMode this handleJoinGame was created with
StartNewSession(startNew, mode) == startNew \/ mode

\* mutant: the question of the response is not adopted
JoinSucceeded_QuestionKept(data) ==
    /\ currentUser' = data.user
    /\ UNCHANGED currentQuestion
    /\ localStorage' = data.user.name
    /\ persistedUserName' = data.user.name
    /\ currentView' = ViewAfterJoin(data)
    /\ isJoinDialogOpen' = FALSE
    /\ isNewGameMode' = FALSE

\* mutant: the user of the response is not adopted
JoinSucceeded_NoIdentity(data) ==
    /\ UNCHANGED currentUser
    /\ currentQuestion' = data.question
    /\ localStorage' = data.user.name
    /\ persistedUserName' = data.user.name
    /\ currentView' = ViewAfterJoin(data)
    /\ isJoinDialogOpen' = FALSE
    /\ isNewGameMode' = FALSE

\* mutant: the name of the response is not written to the store
JoinSucceeded_StoreKept(data) ==
    /\ currentUser' = data.user
    /\ currentQuestion' = data.question
    /\ UNCHANGED localStorage
    /\ persistedUserName' = data.user.name
    /\ currentView' = ViewAfterJoin(data)
    /\ isJoinDialogOpen' = FALSE
    /\ isNewGameMode' = FALSE

\* the try block after a 2xx response, lines 127-143
JoinSucceeded(data) ==
    /\ currentUser' = data.user
    /\ currentQuestion' = data.question
    /\ localStorage' = data.user.name
    /\ persistedUserName' = data.user.name
    /\ currentView' = ViewAfterJoin(data)
    /\ isJoinDialogOpen' = FALSE
    /\ isNewGameMode' = FALSE

\* mutant: the failure of a join is shown whoever made the call
SnackbarAfterJoinFail_Always(isAutoAttempt) ==
    "Failed to join: Failed to join."

\* if (options?.isAutoAttempt) ... else handleShowErrorSnackbar(...)
SnackbarAfterJoinFail(isAutoAttempt) ==
    IF isAutoAttempt THEN snackbar ELSE "Failed to join: Failed to join."

\* if (options?.isAutoAttempt) localStorage.removeItem(...)
StoreAfterJoinFail(isAutoAttempt) ==
    IF isAutoAttempt THEN NULL ELSE localStorage

\* mutant: the remembered name is dropped whoever made the call
PersistedAfterJoinFail_Always(isAutoAttempt) == NULL

\* if (options?.isAutoAttempt) setPersistedUserName(null)
PersistedAfterJoinFail(isAutoAttempt) ==
    IF isAutoAttempt THEN NULL ELSE persistedUserName

\* the catch block, lines 144-154
JoinFailed(isAutoAttempt) ==
    /\ error' = "Failed to join."
    /\ snackbar' = SnackbarAfterJoinFail(isAutoAttempt)
    /\ localStorage' = StoreAfterJoinFail(isAutoAttempt)
    /\ persistedUserName' = PersistedAfterJoinFail(isAutoAttempt)

\* JoinDialog.handleSubmit, then App's onJoin and handleJoinGame up to the fetch
JoinSubmit ==
    /\ EffectsFlushed
    /\ JoinDialogShown
    /\ ~actionLoading
    /\ \E name \in TypedNames :
        IF IsBlankName(name)
        THEN /\ inputError' = "Please enter your name to join."
             /\ UNCHANGED <<error, actionLoading, joinReq>>
        ELSE IF NameLength(name) > 30
        THEN /\ inputError' = "Name cannot exceed 30 characters."
             /\ UNCHANGED <<error, actionLoading, joinReq>>
        ELSE /\ inputError' = NULL
             /\ actionLoading' = TRUE
             /\ error' = NULL
             /\ joinReq' = [name |-> TrimText(name), auto |-> FALSE,
                            start_new |->
                                StartNewSession(isNewGameMode, isNewGameMode)]
    /\ lastEvent' = "JoinSubmit"
    /\ UNCHANGED <<currentUser, currentQuestion, models, currentView,
                   isLoading, isAttemptingAutoJoin, isJoinDialogOpen,
                   snackbar, persistedUserName, isNewGameMode, localStorage,
                   initPc, effectMode, attemptReq, lastResponse, replayed,
                   srvStage, srvMode>>
    /\ ScreenFollows(FALSE)

\* POST /join of an explicit join answers 2xx
JoinResolveOk ==
    /\ joinReq # NoJoin /\ ~joinReq.auto
    /\ \E data \in JoinResponses(joinReq.name, joinReq.start_new) :
        /\ JoinSucceeded(data)
        /\ srvStage' = SrvStageAfterJoin(joinReq.name, data)
        /\ lastResponse' = JoinRecord(data)
        /\ replayed' = FALSE
    /\ actionLoading' = FALSE
    /\ joinReq' = NoJoin
    /\ lastEvent' = "JoinResolveOk"
    /\ UNCHANGED <<models, isLoading, isAttemptingAutoJoin, error, snackbar,
                   inputError, initPc, effectMode, attemptReq, srvMode>>
    /\ ScreenFollows(TRUE)

\* POST /join of an explicit join fails (network, non-2xx): the catch block
JoinResolveFail ==
    /\ joinReq # NoJoin /\ ~joinReq.auto
    /\ JoinFailed(FALSE)
    /\ actionLoading' = FALSE
    /\ joinReq' = NoJoin
    /\ lastEvent' = "JoinResolveFail"
    /\ UNCHANGED <<currentUser, currentQuestion, models, currentView,
                   isLoading, isAttemptingAutoJoin, isJoinDialogOpen,
                   isNewGameMode, inputError, initPc, effectMode, attemptReq,
                   lastResponse, replayed, srvStage, srvMode>>
    /\ ScreenFollows(FALSE)

(***************************************************************************)
(* initializeApp, the effect of App.                                       *)
(***************************************************************************)

\* the effect runs again when handleJoinGame has changed, that is when
\* isNewGameMode has changed: initializeApp up to the fetch of /models
InitEffect ==
    /\ ~EffectsFlushed
    /\ initPc = "idle"
    /\ effectMode' = isNewGameMode
    /\ isLoading' = TRUE
    /\ isAttemptingAutoJoin' = FALSE
    /\ error' = NULL
    /\ currentUser' = NoUser
    /\ models' = NULL
    /\ currentView' = "loading"
    /\ initPc' = "models"
    /\ lastEvent' = "InitEffect"
    /\ UNCHANGED <<currentQuestion, isJoinDialogOpen, actionLoading,
                   snackbar, persistedUserName, isNewGameMode, inputError,
                   localStorage, joinReq, attemptReq, lastResponse, replayed,
                   srvStage, srvMode>>
    /\ ScreenFollows(FALSE)

\* mutant: the failure falls back to the join dialog, as a failed auto-rejoin
ViewAfterModelsFail_Joining == "joining"

\* catch of initializeApp: setCurrentView("error")
ViewAfterModelsFail == "error"

\* GET /models fails: the catch and the finally of initializeApp
ModelsResolveFail ==
    /\ initPc = "models"
    /\ error' = "Failed to load game configuration."
    /\ currentView' = ViewAfterModelsFail
    /\ snackbar' = "App Error: Failed to load game configuration."
    /\ isLoading' = FALSE
    /\ isAttemptingAutoJoin' = FALSE
    /\ initPc' = "idle"
    /\ lastEvent' = "ModelsResolveFail"
    /\ UNCHANGED <<currentUser, currentQuestion, models, isJoinDialogOpen,
                   actionLoading, persistedUserName, isNewGameMode,
                   inputError, localStorage, effectMode, joinReq, attemptReq,
                   lastResponse, replayed, srvStage, srvMode>>
    /\ ScreenFollows(FALSE)

\* GET /models answers and no name is remembered: else if (modelsData)
ModelsResolveNoName ==
    /\ initPc = "models"
    /\ localStorage = NULL
    /\ models' = "loaded"
    /\ currentView' = "joining"
    /\ isJoinDialogOpen' = TRUE
    /\ inputError' = NULL
    /\ isLoading' = FALSE
    /\ isAttemptingAutoJoin' = FALSE
    /\ initPc' = "idle"
    /\ lastEvent' = "ModelsResolveNoName"
    /\ UNCHANGED <<currentUser, currentQuestion, error, actionLoading,
                   snackbar, persistedUserName, isNewGameMode, localStorage,
                   effectMode, joinReq, attemptReq, lastResponse, replayed,
                   srvStage, srvMode>>
    /\ ScreenFollows(FALSE)

\* GET /models answers and a name is remembered: handleJoinGame(savedName,
\* {startNew: false, isAutoAttempt: true}) up to its fetch.  The handleJoinGame
\* the effect closed over has the isNewGameMode of the render that ran the
\* effect.
ModelsResolveAutoJoin ==
    /\ initPc = "models"
    /\ localStorage # NULL
    /\ models' = "loaded"
    /\ persistedUserName' = localStorage
    /\ isAttemptingAutoJoin' = TRUE
    /\ currentView' = "attemptingAutoJoin"
    /\ error' = NULL
    /\ joinReq' = [name |-> localStorage, auto |-> TRUE,
                   start_new |-> StartNewSession(FALSE, effectMode)]
    /\ initPc' = "autojoin"
    /\ lastEvent' = "ModelsResolveAutoJoin"
    /\ UNCHANGED <<currentUser, currentQuestion, isLoading, isJoinDialogOpen,
                   actionLoading, snackbar, isNewGameMode, inputError,
                   localStorage, effectMode, attemptReq, lastResponse,
                   replayed, srvStage, srvMode>>
    /\ ScreenFollows(FALSE)

\* POST /join of the auto-rejoin answers 2xx; initializeApp ends
AutoJoinResolveOk ==
    /\ initPc = "autojoin"
    /\ joinReq # NoJoin /\ joinReq.auto
    /\ \E data \in JoinResponses(joinReq.name, joinReq.start_new) :
        /\ JoinSucceeded(data)
        /\ srvStage' = SrvStageAfterJoin(joinReq.name, data)
        /\ lastResponse' = JoinRecord(data)
        /\ replayed' = FALSE
    /\ isLoading' = FALSE
    /\ isAttemptingAutoJoin' = FALSE
    /\ joinReq' = NoJoin
    /\ initPc' = "idle"
    /\ lastEvent' = "AutoJoinResolveOk"
    /\ UNCHANGED <<models, error, actionLoading, snackbar, inputError,
                   effectMode, attemptReq, srvMode>>
    /\ ScreenFollows(TRUE)

\* POST /join of the auto-rejoin fails: the catch of handleJoinGame
\* (isAutoAttempt), then if (!autoJoinSuccess) and the finally of initializeApp
AutoJoinResolveFail ==
    /\ initPc = "autojoin"
    /\ joinReq # NoJoin /\ joinReq.auto
    /\ JoinFailed(TRUE)
    /\ currentView' = "joining"
    /\ isJoinDialogOpen' = TRUE
    /\ inputError' = NULL
    /\ isLoading' = FALSE
    /\ isAttemptingAutoJoin' = FALSE
    /\ joinReq' = NoJoin
    /\ initPc' = "idle"
    /\ lastEvent' = "AutoJoinResolveFail"
    /\ UNCHANGED <<currentUser, currentQuestion, models, actionLoading,
                   isNewGameMode, effectMode, attemptReq, lastResponse,
                   replayed, srvStage, srvMode>>
    /\ ScreenFollows(FALSE)

(***************************************************************************)
(* handleSubmitAttempt, handlePlayAgain, handleCloseSnackbar.              *)
(***************************************************************************)

\* mutant: the held stage is left as it is
UserAfterCorrect_Same(prevUser) == prevUser

\* setCurrentUser((prevUser) => prevUser ? {...prevUser,
\*     current_stage: prevUser.current_stage + 1} : null)
UserAfterCorrect(prevUser) ==
    IF prevUser # NoUser
    THEN [prevUser EXCEPT !.current_stage = prevUser.current_stage + 1]
    ELSE NoUser

\* mutant: the view follows the question of the response, not its victory
ViewAfterCorrect_ByQuestion(data) ==
    IF data.question = NoQuestion THEN "victory" ELSE "playing"

\* if (data.victory) setCurrentView("victory") else setCurrentView("playing")
ViewAfterCorrect(data) == IF data.victory THEN "victory" ELSE "playing"

\* if (data.victory) setCurrentQuestion(null)
\* else setCurrentQuestion(data.question)
QuestionAfterCorrect(data) ==
    IF data.victory THEN NoQuestion ELSE data.question

\* if (data.question) setCurrentQuestion(data.question)
QuestionAfterIncorrect(data) ==
    IF data.question # NoQuestion THEN data.question ELSE currentQuestion

\* lines 248-269: the state after a 2xx response
AttemptSucceeded(data) ==
    IF data.correct
    THEN /\ currentUser' = UserAfterCorrect(currentUser)
         /\ currentView' = ViewAfterCorrect(data)
         /\ currentQuestion' = QuestionAfterCorrect(data)
    ELSE /\ currentQuestion' = QuestionAfterIncorrect(data)
         /\ UNCHANGED <<currentUser, currentView>>

\* setCurrentQuestion was called with a question object
QuestionSet(data) ==
    IF data.correct THEN ~data.victory /\ data.question # NoQuestion
    ELSE data.question # NoQuestion

\* AnswerSubmissionDialog.handleSubmit with an answer, then
\* handleSubmitAttempt up to the fetch
AttemptSubmit ==
    /\ EffectsFlushed
    /\ GameScreenShown
    /\ ~actionLoading
    /\ attemptReq = NoAttempt
    /\ currentUser.current_stage < MaxHeldStage
    /\ \E answer \in TypedAnswers :
        /\ SubmitEnabled(answer)
        /\ ~IsBlankAnswer(answer)
        /\ actionLoading' = TRUE
        /\ error' = NULL
        /\ attemptReq' = [user_id |-> currentUser.id, answer |-> answer]
    /\ lastEvent' = "AttemptSubmit"
    /\ UNCHANGED <<currentUser, currentQuestion, models, currentView,
                   isLoading, isAttemptingAutoJoin, isJoinDialogOpen,
                   snackbar, persistedUserName, isNewGameMode, inputError,
                   localStorage, initPc, effectMode, joinReq, lastResponse,
                   replayed, srvStage, srvMode>>
    /\ ScreenFollows(FALSE)

\* mutant: the guard looks at the identity only
AttemptRefused_UserOnly == currentUser = NoUser

\* if (!currentUser || !currentQuestion)
AttemptRefused == currentUser = NoUser \/ currentQuestion = NoQuestion

\* handleSubmitAttempt called while the dialog of GameScreen is not there to
\* call it: the guard of lines 222-228, or the call up to the fetch
AttemptCall ==
    /\ EffectsFlushed
    /\ ~GameScreenShown
    /\ attemptReq = NoAttempt
    /\ IF AttemptRefused
       THEN /\ error' = "User or question not available for submission."
            /\ snackbar' =
                "Error: User or question not available for submission."
            /\ UNCHANGED <<actionLoading, attemptReq>>
       ELSE /\ currentUser.current_stage < MaxHeldStage
            /\ actionLoading' = TRUE
            /\ error' = NULL
            /\ UNCHANGED snackbar
            /\ attemptReq' = [user_id |-> currentUser.id, answer |-> " 42 "]
    /\ lastEvent' = "AttemptCall"
    /\ UNCHANGED <<currentUser, currentQuestion, models, currentView,
                   isLoading, isAttemptingAutoJoin, isJoinDialogOpen,
                   persistedUserName, isNewGameMode, inputError,
                   localStorage, initPc, effectMode, joinReq, lastResponse,
                   replayed, srvStage, srvMode>>
    /\ ScreenFollows(FALSE)

\* POST /attempt answers 2xx; the finally
AttemptResolveOk ==
    /\ attemptReq # NoAttempt
    /\ actionLoading' = FALSE
    /\ attemptReq' = NoAttempt
    /\ UNCHANGED <<models, isLoading, isAttemptingAutoJoin, error,
                   isJoinDialogOpen, snackbar, persistedUserName,
                   isNewGameMode, inputError, localStorage, initPc,
                   effectMode, joinReq, replayed, srvMode>>
    /\ \E data \in AttemptResponses(attemptReq.user_id) :
           /\ AttemptSucceeded(data)
           /\ srvStage' = SrvStageAfterAttempt(attemptReq.user_id, data)
           /\ lastEvent' = IF data.correct THEN "AttemptCorrect"
                           ELSE "AttemptIncorrect"
           /\ lastResponse' = AttemptRecord(data)
           /\ ScreenFollows(QuestionSet(data))

\* POST /attempt fails (network, non-2xx): the catch and the finally
AttemptResolveFail ==
    /\ attemptReq # NoAttempt
    /\ error' = "Submission failed."
    /\ snackbar' = "Error submitting answer: Submission failed."
    /\ actionLoading' = FALSE
    /\ attemptReq' = NoAttempt
    /\ lastEvent' = "AttemptResolveFail"
    /\ UNCHANGED <<currentUser, currentQuestion, models, currentView,
                   isLoading, isAttemptingAutoJoin, isJoinDialogOpen,
                   persistedUserName, isNewGameMode, inputError,
                   localStorage, initPc, effectMode, joinReq, lastResponse,
                   replayed, srvStage, srvMode>>
    /\ ScreenFollows(FALSE)

\* VictoryScreen's Play Again: handlePlayAgain
PlayAgain ==
    /\ EffectsFlushed
    /\ VictoryScreenShown
    /\ currentUser' = NoUser
    /\ currentQuestion' = NoQuestion
    /\ error' = NULL
    /\ isNewGameMode' = TRUE
    /\ currentView' = "joining"
    /\ isJoinDialogOpen' = TRUE
    /\ inputError' = NULL
    /\ localStorage' = NULL
    /\ replayed' = TRUE
    /\ lastEvent' = "PlayAgain"
    /\ UNCHANGED <<models, isLoading, isAttemptingAutoJoin, actionLoading,
                   snackbar, persistedUserName, initPc, effectMode, joinReq,
                   attemptReq, lastResponse, srvStage, srvMode>>
    /\ ScreenFollows(FALSE)

\* the Snackbar closes (autoHideDuration, or the user): handleCloseSnackbar
CloseSnackbar ==
    /\ snackbar # NULL
    /\ snackbar' = NULL
    /\ UNCHANGED <<currentUser, currentQuestion, models, currentView,
                   isLoading, isAttemptingAutoJoin, error, isJoinDialogOpen,
                   actionLoading, persistedUserName, isNewGameMode,
                   inputError, localStorage, initPc, effectMode, joinReq,
                   attemptReq, lastEvent, lastResponse, replayed, srvStage,
                   srvMode>>
    /\ ScreenFollows(FALSE)

(***************************************************************************)
(* handleSendMessageToModel and handleModelRun: a chat turn.               *)
(***************************************************************************)

\* the letter a record carries: the n-th read of a run delivers the n-th
\* letter, so that the order of the fragments can be told from a text
ChatLetter(n) == <<"a", "b", "c", "d", "e", "f">>[n]

\* the types of the records of a model-run response
ChatTypes == {"k", "t", "e", "d", "u"}

\* the byte sequences the n-th reader.read() may deliver: a record and its
\* delimiter; a record without its delimiter, which is the last of the body
\* or makes what follows it a segment that is not JSON; an error record and
\* a text record
ChatFragments(n) ==
    { <<"{", t, ChatLetter(n), "}", STREAM_CHUNK_DELIMITER>> : t \in ChatTypes }
    \cup { <<"{", "t", ChatLetter(n), "}">> }
    \cup { <<"{", "e", ChatLetter(n), "}", STREAM_CHUNK_DELIMITER,
             "{", "t", ChatLetter(n), "}", STREAM_CHUNK_DELIMITER>> }

\* mutant: the streaming flag is cleared after each chunk
TurnGoesOn_FlagCleared(o) ==
    /\ pending' = o.pending
    /\ thinkingMessageId' = o.tmid
    /\ currentAssistantMessage' = o.cam
    /\ stamp' = o.stamp
    /\ isModelStreaming' = FALSE
    /\ UNCHANGED turn

\* the loop goes on with the next chunk
TurnGoesOn(o) ==
    /\ pending' = o.pending
    /\ thinkingMessageId' = o.tmid
    /\ currentAssistantMessage' = o.cam
    /\ stamp' = o.stamp
    /\ UNCHANGED <<isModelStreaming, turn>>

\* mutant: the finally block leaves the streaming flag set
TurnEnds_StillStreaming(o) ==
    /\ pending' = FinallyQueue(o.pending, o.tmid)
    /\ thinkingMessageId' = o.tmid
    /\ currentAssistantMessage' = o.cam
    /\ stamp' = o.stamp
    /\ UNCHANGED isModelStreaming
    /\ turn' = "idle"

\* the loop is left: the finally block, lines 228-239
TurnEnds(o) ==
    /\ pending' = FinallyQueue(o.pending, o.tmid)
    /\ thinkingMessageId' = o.tmid
    /\ currentAssistantMessage' = o.cam
    /\ stamp' = o.stamp
    /\ isModelStreaming' = FALSE
    /\ turn' = "idle"

\* the catch block, lines 216-227, then the finally block
TurnThrows ==
    \E q1 \in Enqueue(pending, AppendMessage(ChatErrorEntry),
                      assistantResponseId, thinkingMessageId,
                      currentAssistantMessage) :
        TurnEnds(TurnState(q1, thinkingMessageId, currentAssistantMessage,
                           stamp, TRUE))

\* ChatInputArea.handleSend with a message, enabled while !isSending and once
\* GameScreen has rendered what was queued, then handleSendMessageToModel and
\* handleModelRun up to the fetch.  The send is a click or a key press: React
\* renders its updates before the response can arrive.
Send(limit) ==
    /\ EffectsFlushed
    /\ GameScreenShown
    /\ ~isModelStreaming
    /\ pending = <<>>
    /\ sends < limit
    /\ sends' = sends + 1
    /\ assistantResponseId' = <<"assistant", sends + 1, 0>>
    /\ chatMessages' = Append(chatMessages,
                        Entry(<<"user", sends + 1, 0>>, "user", <<"hi">>, FALSE))
    /\ isModelStreaming' = TRUE
    /\ currentAssistantMessage' = <<>>
    /\ thinkingMessageId' = NoId
    /\ stamp' = 0
    /\ turnRecs' = <<>>
    /\ turnQuestion' = currentQuestion
    /\ turn' = "fetch"
    /\ error' = NULL
    /\ UNCHANGED <<buffer, parts, lead, gen, reader, wire, pos, yielded,
                   midCut, currentUser, currentQuestion, models, currentView,
                   isLoading, isAttemptingAutoJoin, isJoinDialogOpen,
                   actionLoading, snackbar, persistedUserName, isNewGameMode,
                   inputError, localStorage, initPc, effectMode, joinReq,
                   attemptReq, lastEvent, lastResponse, replayed, srvStage,
                   srvMode, pending, selectedModel, reads>>

\* POST /model-run answers 2xx with a body: the reader is taken and the
\* generator returned, lines 322-324
ModelRunOk ==
    /\ turn = "fetch"
    /\ turn' = "stream"
    /\ buffer' = <<>>
    /\ parts' = <<>>
    /\ lead' = FALSE
    /\ gen' = "read"
    /\ reader' = "locked"
    /\ UNCHANGED <<wire, pos, yielded, midCut, currentUser, currentQuestion,
                   models, currentView, isLoading, isAttemptingAutoJoin,
                   error, isJoinDialogOpen, actionLoading, snackbar,
                   persistedUserName, isNewGameMode, inputError,
                   localStorage, initPc, effectMode, joinReq, attemptReq,
                   lastEvent, lastResponse, replayed, srvStage, srvMode,
                   chatMessages, pending, isModelStreaming, selectedModel,
                   assistantResponseId, thinkingMessageId,
                   currentAssistantMessage, stamp, turnRecs, turnQuestion,
                   sends, reads>>

\* POST /model-run fails: the catch of handleModelRun, lines 352-363, then
\* the loop of handleSendMessageToModel on the one record it yields
ModelRunFail ==
    /\ turn = "fetch"
    /\ error' = "Model run failed."
    /\ snackbar' = "AI Chat Error: Model run failed."
    /\ turnRecs' = <<SyntheticError>>
    /\ \E o \in ConsumeOutcomes(SyntheticError, pending, assistantResponseId,
                                thinkingMessageId, currentAssistantMessage) :
        TurnEnds(o)
    /\ UNCHANGED <<buffer, parts, lead, gen, reader, wire, pos, yielded,
                   midCut, currentUser, currentQuestion, models, currentView,
                   isLoading, isAttemptingAutoJoin, isJoinDialogOpen,
                   actionLoading, persistedUserName, isNewGameMode,
                   inputError, localStorage, initPc, effectMode, joinReq,
                   attemptReq, lastEvent, lastResponse, replayed, srvStage,
                   srvMode, chatMessages, selectedModel, assistantResponseId,
                   turnQuestion, sends, reads>>

\* reader.read() resolves with bytes, lines 328-339
TurnRead(limit) ==
    /\ turn = "stream" /\ gen = "read"
    /\ reads < limit
    /\ reads' = reads + 1
    /\ \E bytes \in ChatFragments(reads + 1) :
        LET r == ReadStep(buffer, lead, bytes)
        IN  /\ buffer' = r.buffer
            /\ lead' = r.lead
            /\ parts' = r.parts
            /\ gen' = IF r.parts = <<>> THEN "read" ELSE "parts"
    /\ UNCHANGED <<reader, wire, pos, yielded, midCut, currentUser,
                   currentQuestion, models, currentView, isLoading,
                   isAttemptingAutoJoin, error, isJoinDialogOpen,
                   actionLoading, snackbar, persistedUserName, isNewGameMode,
                   inputError, localStorage, initPc, effectMode, joinReq,
                   attemptReq, lastEvent, lastResponse, replayed, srvStage,
                   srvMode, chatMessages, pending, isModelStreaming,
                   selectedModel, turn, assistantResponseId,
                   thinkingMessageId, currentAssistantMessage, stamp,
                   turnRecs, turnQuestion, sends>>

\* the generator parses the next part, lines 340-346, and the loop of
\* handleSendMessageToModel takes the record; or JSON.parse throws
TurnPart ==
    /\ turn = "stream" /\ gen = "parts"
    /\ LET p == ParseStep(Head(parts))
       IN  IF p.kind = "yield"
           THEN /\ turnRecs' = Append(turnRecs, p.value)
                /\ \E o \in ConsumeOutcomes(p.value, pending, assistantResponseId,
                              thinkingMessageId, currentAssistantMessage) :
                    IF o.stop
                    THEN GenEnd("returned") /\ UNCHANGED parts /\ TurnEnds(o)
                    ELSE AfterYield(Tail(parts)) /\ UNCHANGED reader
                            /\ TurnGoesOn(o)
           ELSE /\ GenEnd("threw")
                /\ UNCHANGED <<parts, turnRecs>>
                /\ TurnThrows
    /\ UNCHANGED <<buffer, lead, wire, pos, yielded, midCut, currentUser,
                   currentQuestion, models, currentView, isLoading,
                   isAttemptingAutoJoin, error, isJoinDialogOpen,
                   actionLoading, snackbar, persistedUserName, isNewGameMode,
                   inputError, localStorage, initPc, effectMode, joinReq,
                   attemptReq, lastEvent, lastResponse, replayed, srvStage,
                   srvMode, chatMessages, selectedModel, assistantResponseId,
                   turnQuestion, sends, reads>>

\* reader.read() resolves with done, lines 329-336: the rest of the buffer
\* is parsed and taken by the loop, the generator ends, the turn ends
TurnEof ==
    /\ turn = "stream" /\ gen = "read"
    /\ LET e == EofStep(buffer)
       IN  CASE e.kind = "yield" ->
                  /\ turnRecs' = Append(turnRecs, e.value)
                  /\ \E o \in ConsumeOutcomes(e.value, pending,
                                assistantResponseId, thinkingMessageId,
                                currentAssistantMessage) :
                        /\ GenEnd(IF o.stop THEN "returned" ELSE "done")
                        /\ TurnEnds(o)
             [] e.kind = "return" ->
                  /\ GenEnd("done")
                  /\ UNCHANGED turnRecs
                  /\ TurnEnds(TurnState(pending, thinkingMessageId,
                                        currentAssistantMessage, stamp, FALSE))
             [] e.kind = "throw" ->
                  /\ GenEnd("threw")
                  /\ UNCHANGED turnRecs
                  /\ TurnThrows
    /\ UNCHANGED <<buffer, parts, lead, wire, pos, yielded, midCut,
                   currentUser, currentQuestion, models, currentView,
                   isLoading, isAttemptingAutoJoin, error, isJoinDialogOpen,
                   actionLoading, snackbar, persistedUserName, isNewGameMode,
                   inputError, localStorage, initPc, effectMode, joinReq,
                   attemptReq, lastEvent, lastResponse, replayed, srvStage,
                   srvMode, chatMessages, selectedModel, assistantResponseId,
                   turnQuestion, sends, reads>>

\* React renders GameScreen: the queued updaters run, in order.  The render
\* is a task of its own: it does not run between the records of one read, which
\* the loop takes in consecutive microtasks.
Render ==
    /\ GameScreenShown
    /\ pending # <<>>
    /\ gen # "parts"
    /\ chatMessages' = ApplyAll(pending, chatMessages, assistantResponseId,
                                thinkingMessageId, currentAssistantMessage)
    /\ pending' = <<>>
    /\ UNCHANGED <<buffer, parts, lead, gen, reader, wire, pos, yielded,
                   midCut, currentUser, currentQuestion, models, currentView,
                   isLoading, isAttemptingAutoJoin, error, isJoinDialogOpen,
                   actionLoading, snackbar, persistedUserName, isNewGameMode,
                   inputError, localStorage, initPc, effectMode, joinReq,
                   attemptReq, lastEvent, lastResponse, replayed, srvStage,
                   srvMode, isModelStreaming, selectedModel, turn,
                   assistantResponseId, thinkingMessageId,
                   currentAssistantMessage, stamp, turnRecs, turnQuestion,
                   sends, reads>>

\* ModelSelector, enabled while !isSending: setSelectedModel, then the effect
\* on [models, selectedModel], lines 58-63
SelectModel ==
    /\ EffectsFlushed
    /\ GameScreenShown
    /\ ~isModelStreaming
    /\ \E m \in ModelNames \ {selectedModel} : selectedModel' = m
    /\ chatMessages' = <<>>
    /\ pending' = <<>>
    /\ UNCHANGED <<buffer, parts, lead, gen, reader, wire, pos, yielded,
                   midCut, currentUser, currentQuestion, models, currentView,
                   isLoading, isAttemptingAutoJoin, error, isJoinDialogOpen,
                   actionLoading, snackbar, persistedUserName, isNewGameMode,
                   inputError, localStorage, initPc, effectMode, joinReq,
                   attemptReq, lastEvent, lastResponse, replayed, srvStage,
                   srvMode, isModelStreaming, turn, assistantResponseId,
                   thinkingMessageId, currentAssistantMessage, stamp,
                   turnRecs, turnQuestion, sends, reads>>

(***************************************************************************)
(* SpecDecoder: the generator alone, fed a response body in fragments of   *)
(* every size, its consumer taking every value.                            *)
(***************************************************************************)
\* the segments a response body is made of
Segments ==
    { <<"{", "k", "a", "}">>,                  \* a thinking record
      <<"{", "t", LeadByte, ContByte, "}">>,   \* a text record, two-byte letter
      <<"7", WS>>,                             \* a scalar and a blank
      <<>>,                                    \* nothing
      <<WS>>,                                  \* a blank
      <<"{", "k">> }                           \* a truncated record

RECURSIVE Join(_)
\* the segments with the delimiter between them
Join(segs) ==
    IF Len(segs) = 1 THEN segs[1]
    ELSE segs[1] \o <<STREAM_CHUNK_DELIMITER>> \o Join(Tail(segs))

Bodies ==
    { Join(segs) : segs \in UNION { [1..n -> Segments] : n \in 1..MaxSegs } }

\* const reader = response.body.getReader(); const decoder = new TextDecoder();
\* let buffer = ""
GenStart ==
    /\ buffer = <<>>
    /\ parts = <<>>
    /\ lead = FALSE
    /\ gen = "read"
    /\ reader = "locked"

InitDecoder ==
    /\ GenStart
    /\ wire \in Bodies
    /\ pos = 0
    /\ yielded = <<>>
    /\ midCut = FALSE
    /\ AppConstructed
    /\ localStorage = NULL
    /\ srvStage = [n \in Names |-> 1]
    /\ srvMode = "consistent"
    /\ ScreenConstructed
    /\ sends = 0
    /\ reads = 0

\* reader.read() resolves with the next n bytes of the body
DecoderRead ==
    /\ gen = "read"
    /\ \E n \in 1..MaxChunk :
        /\ pos + n <= Len(wire)
        /\ LET r == ReadStep(buffer, lead, SubSeq(wire, pos + 1, pos + n))
           IN  /\ buffer' = r.buffer
               /\ lead' = r.lead
               /\ parts' = r.parts
               /\ gen' = IF r.parts = <<>> THEN "read" ELSE "parts"
               /\ midCut' = (midCut \/ ~IsBlank(r.buffer) \/ r.lead)
        /\ pos' = pos + n
    /\ UNCHANGED <<reader, wire, yielded>>
    /\ UNCHANGED <<appVars, envVars, srvVars, chatVars>>

\* the for-of loop reaches the next non-blank part
DecoderPart ==
    /\ gen = "parts"
    /\ LET r == ParseStep(Head(parts))
       IN  IF r.kind = "yield"
           THEN /\ yielded' = Append(yielded, r.value)
                /\ AfterYield(Tail(parts))
                /\ UNCHANGED reader
           ELSE /\ GenEnd("threw")
                /\ UNCHANGED <<parts, yielded>>
    /\ UNCHANGED <<buffer, lead, wire, pos, midCut>>
    /\ UNCHANGED <<appVars, envVars, srvVars, chatVars>>

\* reader.read() resolves with done
DecoderEof ==
    /\ gen = "read"
    /\ pos = Len(wire)
    /\ LET r == EofStep(buffer)
       IN  /\ yielded' = IF r.kind = "yield" THEN Append(yielded, r.value) ELSE yielded
           /\ GenEnd(IF r.kind = "throw" THEN "threw" ELSE "done")
    /\ UNCHANGED <<buffer, parts, lead, wire, pos, midCut>>
    /\ UNCHANGED <<appVars, envVars, srvVars, chatVars>>

NextDecoder == DecoderRead \/ DecoderPart \/ DecoderEof

SpecDecoder == InitDecoder /\ [][NextDecoder]_vars

(***************************************************************************)
(* Spec: the session controller from its construction, against a backend   *)
(* that behaves as the specification describes it.                         *)
(***************************************************************************)
\* the stages the backend holds when the page is loaded
SrvStages == [Names -> 1..(MAX_STAGES + 1)]

Init ==
    /\ AppConstructed
    /\ ScreenConstructed
    /\ NoStream
    /\ localStorage \in Names \cup {NULL}
    /\ srvStage \in SrvStages
    /\ srvMode = "consistent"
    /\ wire = <<>> /\ pos = 0 /\ yielded = <<>> /\ midCut = FALSE
    /\ sends = 0 /\ reads = 0

Next ==
    \/ JoinSubmit \/ JoinResolveOk \/ JoinResolveFail
    \/ InitEffect \/ ModelsResolveFail \/ ModelsResolveNoName
    \/ ModelsResolveAutoJoin \/ AutoJoinResolveOk \/ AutoJoinResolveFail
    \/ AttemptSubmit \/ AttemptResolveOk \/ AttemptResolveFail
    \/ PlayAgain \/ CloseSnackbar

Spec == Init /\ [][Next]_vars

(***************************************************************************)
(* SpecAnyServer: the session controller against a backend of which only   *)
(* the types of the responses are known.                                   *)
(***************************************************************************)
InitAnyServer ==
    /\ AppConstructed
    /\ ScreenConstructed
    /\ NoStream
    /\ localStorage \in Names \cup {NULL}
    /\ srvStage = [n \in Names |-> 1]
    /\ srvMode = "any"
    /\ wire = <<>> /\ pos = 0 /\ yielded = <<>> /\ midCut = FALSE
    /\ sends = 0 /\ reads = 0

SpecAnyServer == InitAnyServer /\ [][Next]_vars

(***************************************************************************)
(* SpecChat: GameScreen from the moment a join has put the application in  *)
(* the playing view, its chat turns and the attempts.                      *)
(***************************************************************************)
InitChat ==
    /\ currentUser = [id |-> "Ada", name |-> "Ada", current_stage |-> 1]
    /\ currentQuestion = [id |-> <<1, "a">>]
    /\ models = "loaded"
    /\ currentView = "playing"
    /\ isLoading = FALSE
    /\ isAttemptingAutoJoin = FALSE
    /\ error = NULL
    /\ isJoinDialogOpen = FALSE
    /\ actionLoading = FALSE
    /\ snackbar = NULL
    /\ persistedUserName = "Ada"
    /\ isNewGameMode = FALSE
    /\ inputError = NULL
    /\ localStorage = "Ada"
    /\ initPc = "idle"
    /\ effectMode = FALSE
    /\ joinReq = NoJoin
    /\ attemptReq = NoAttempt
    /\ lastEvent = "JoinResolveOk"
    /\ replayed = FALSE
    /\ lastResponse = JoinRecord([user |-> currentUser,
                                    question |-> currentQuestion])
    /\ srvStage = [n \in Names |-> 1]
    /\ srvMode = "consistent"
    /\ ScreenConstructed
    /\ NoStream
    /\ wire = <<>> /\ pos = 0 /\ yielded = <<>> /\ midCut = FALSE
    /\ sends = 0 /\ reads = 0

NextChat ==
    \/ Send(MaxSends) \/ ModelRunOk \/ ModelRunFail
    \/ TurnRead(ChatReads) \/ TurnPart \/ TurnEof
    \/ Render \/ SelectModel
    \/ AttemptSubmit \/ AttemptResolveOk \/ AttemptResolveFail

SpecChat == InitChat /\ [][NextChat]_vars

(***************************************************************************)
(* SpecTurn: the chat turns of one transcript, record by record.           *)
(***************************************************************************)
NextTurn ==
    \/ Send(MaxSends) \/ ModelRunOk \/ ModelRunFail
    \/ TurnRead(MaxReads) \/ TurnPart \/ TurnEof
    \/ Render

SpecTurn == InitChat /\ [][NextTurn]_vars

(***************************************************************************)
(* SpecSession: the session controller and the chat of GameScreen          *)
(* together, from the load of the page, with one short turn per session.   *)
(***************************************************************************)
NextSession ==
    \/ Next
    \/ Send(SessionSends) \/ ModelRunOk \/ ModelRunFail
    \/ TurnRead(SessionReads) \/ TurnPart \/ TurnEof \/ Render

SpecSession == Init /\ [][NextSession]_vars

(***************************************************************************)
(* SpecTurnFair: the chat turns under the scheduling of the event loop.    *)
(* A request that was sent is answered or fails; a response body delivers  *)
(* its end (the body is finite: MaxReads chunks at most, then done); the   *)
(* generator and the loop go on with a record that was read; React renders *)
(* an update that is queued.                                               *)
(***************************************************************************)
FairTurn ==
    /\ WF_vars(ModelRunOk \/ ModelRunFail)
    /\ WF_vars(TurnEof)
    /\ WF_vars(TurnPart)
    /\ WF_vars(Render)

SpecTurnFair == InitChat /\ [][NextTurn]_vars /\ FairTurn

(***************************************************************************)
(* SpecHandler: the session controller against a backend of which only the *)
(* types of the responses are known, handleSubmitAttempt being called in   *)
(* whatever state the controller is in.                                    *)
(***************************************************************************)
NextHandler == Next \/ AttemptCall

SpecHandler == InitAnyServer /\ [][NextHandler]_vars
(***************************************************************************)
(* The decoder's claims.  The reference reads the body in one piece.       *)
(***************************************************************************)
IsPrefix(s, t) == Len(s) <= Len(t) /\ s = SubSeq(t, 1, Len(s))

\* the segments of the whole body
BodySegments == Split(Utf8Decode(FALSE, wire).text, STREAM_CHUNK_DELIMITER)

WellFormed(seg) == JsonValid(Trim(seg))

RECURSIVE RecordsOf(_)
\* the records of the non-blank segments, in order
RecordsOf(segs) ==
    IF segs = <<>> THEN <<>>
    ELSE IF IsBlank(Head(segs)) THEN RecordsOf(Tail(segs))
    ELSE <<JsonParse(Trim(Head(segs)))>> \o RecordsOf(Tail(segs))

\* every segment is well-formed JSON (or blank: blank segments carry no record)
WellFormedBody == \A i \in 1..Len(BodySegments) :
    IsBlank(BodySegments[i]) \/ WellFormed(BodySegments[i])

\* C1: for a body whose segments are all well-formed, the generator never
\* throws, yields only a prefix of the segments' records in order, and has
\* yielded exactly those records when it returns, whatever the fragments were
C1_DecoderFraming ==
    WellFormedBody =>
        /\ gen # "threw"
        /\ IsPrefix(yielded, RecordsOf(BodySegments))
        /\ (gen = "done" => yielded = RecordsOf(BodySegments))

\* a body of MaxSegs records decoded to the end, a fragment having ended
\* inside a segment
C1_Witness ==
    /\ WellFormedBody
    /\ gen = "done"
    /\ midCut
    /\ Len(yielded) = MaxSegs
    /\ Len(BodySegments) = MaxSegs

\* the first segment that is neither blank nor well-formed, 0 if there is none
BadIndex ==
    LET bad == { i \in 1..Len(BodySegments) :
                   ~IsBlank(BodySegments[i]) /\ ~WellFormed(BodySegments[i]) }
    IN  IF bad = {} THEN 0 ELSE CHOOSE i \in bad : \A j \in bad : i <= j

RecordsBeforeBad == RecordsOf(SubSeq(BodySegments, 1, BadIndex - 1))

\* C10: with a malformed segment in the body the generator never returns
\* normally; it yields only records of the segments before the malformed one,
\* in order, and has yielded all of them when it throws
C10_DecoderFatal ==
    BadIndex > 0 =>
        /\ gen # "done"
        /\ IsPrefix(yielded, RecordsBeforeBad)
        /\ (gen = "threw" => yielded = RecordsBeforeBad)
        /\ (gen = "read" /\ pos = Len(wire) => EofStep(buffer).kind = "throw")

\* the generator threw at a malformed segment that has a record before it and
\* a well-formed segment after it
C10_Witness ==
    /\ BadIndex > 1
    /\ BadIndex < Len(BodySegments)
    /\ WellFormed(BodySegments[BadIndex + 1])
    /\ gen = "threw"
    /\ yielded # <<>>

(***************************************************************************)
(* The session controller's claims.                                        *)
(***************************************************************************)
\* a step in which POST /attempt has answered 2xx
AttemptAnswered == attemptReq # NoAttempt /\ lastResponse'.kind = "attempt"
                      /\ attemptReq' = NoAttempt
                      /\ lastEvent' \in {"AttemptCorrect", "AttemptIncorrect"}

\* C3: stage progression.  A correct attempt that is not a victory adds
\* exactly 1 to the held stage and replaces the held puzzle with the returned
\* one; an incorrect attempt leaves the stage as it is; while an identity is
\* held, its stage never decreases.
C3_StageProgression ==
    [][ /\ (AttemptAnswered /\ lastResponse'.correct /\ ~lastResponse'.victory)
            => /\ currentUser'.current_stage = currentUser.current_stage + 1
               /\ currentQuestion' = lastResponse'.question
        /\ (AttemptAnswered /\ ~lastResponse'.correct)
            => currentUser'.current_stage = currentUser.current_stage
        /\ (currentUser # NoUser /\ currentUser' # NoUser)
            => currentUser'.current_stage >= currentUser.current_stage
      ]_vars

\* a correct attempt has moved the controller from stage 1 to stage 2 and to
\* the puzzle of the response
C3_Witness ==
    /\ lastEvent = "AttemptCorrect"
    /\ lastResponse.correct /\ ~lastResponse.victory
    /\ lastResponse.question # NoQuestion
    /\ currentUser.current_stage = 2
    /\ currentQuestion = lastResponse.question
    /\ currentView = "playing"

\* C6: victory transition.  A correct attempt whose response has victory=true
\* leaves no held puzzle and the view "victory", whatever the held stage was.
C6_VictoryTransition ==
    [][ (AttemptAnswered /\ lastResponse'.correct /\ lastResponse'.victory)
            => /\ currentQuestion' = NoQuestion
               /\ currentView' = "victory"
      ]_vars

\* a response with victory=true and a question has arrived while stage 1 was
\* held
C6_Witness ==
    /\ lastEvent = "AttemptCorrect"
    /\ lastResponse.correct /\ lastResponse.victory
    /\ lastResponse.question # NoQuestion
    /\ currentUser.current_stage = 2
    /\ currentView = "victory"
    /\ currentQuestion = NoQuestion

C7_WitnessAttempt ==
    /\ currentView = "victory"
    /\ lastEvent = "AttemptCorrect"
    /\ currentUser.current_stage = MAX_STAGES + 1

\* C8: auto-rejoin fallback.  When the join call of the auto-rejoin fails, the
\* remembered name is removed (from the store and from the state), the view
\* is "joining" with the join dialog open, and nothing is added to what the
\* user sees of errors: the snackbar is as it was and the view is not "error".
C8_AutoRejoinFallback ==
    [][ (initPc = "autojoin" /\ lastEvent' = "AutoJoinResolveFail")
            => /\ localStorage' = NULL
               /\ persistedUserName' = NULL
               /\ currentView' = "joining"
               /\ isJoinDialogOpen'
               /\ currentUser' = NoUser
               /\ snackbar' = snackbar
               /\ ~(currentView' = "error" /\ error' # NULL)
      ]_vars

\* the auto-rejoin has failed: the join dialog is shown, no snackbar
C8_Witness ==
    /\ lastEvent = "AutoJoinResolveFail"
    /\ JoinDialogShown
    /\ localStorage = NULL
    /\ snackbar = NULL
    /\ error # NULL

(***************************************************************************)
(* The assembler's claims.  They are stated of the rendered transcript     *)
(* once the turn has ended and GameScreen has rendered what was queued.    *)
(***************************************************************************)
Quiescent == GameScreenShown /\ sends >= 1 /\ turn = "idle" /\ pending = <<>>

RECURSIVE TextOf(_, _)
\* the fragments of the records of one type, concatenated in order
TextOf(recs, type) ==
    IF recs = <<>> THEN <<>>
    ELSE (IF Head(recs).type = type THEN Head(recs).delta ELSE <<>>)
            \o TextOf(Tail(recs), type)

\* one or more thinking records followed by one or more text records
ThinkingThenText(recs) ==
    \E i \in 1..(Len(recs) - 1) :
        /\ \A j \in 1..i : recs[j].type = "thinking"
        /\ \A j \in (i + 1)..Len(recs) : recs[j].type = "text"

UserEntry == Entry(<<"user", sends, 0>>, "user", <<"hi">>, FALSE)

\* C2: assembler coalescing.  A turn whose records are thinking records
\* followed by text records adds exactly two entries after the user entry: a
\* sealed thinking entry with the thinking fragments in order, then an
\* assistant entry with the text fragments in order.
C2_Coalescing ==
    (Quiescent /\ ThinkingThenText(turnRecs))
        => LET n == Len(chatMessages)
           IN  /\ n >= 3
               /\ chatMessages[n - 2] = UserEntry
               /\ chatMessages[n - 1].role = "thinking"
               /\ chatMessages[n - 1].isThinking = FALSE
               /\ chatMessages[n - 1].content = TextOf(turnRecs, "thinking")
               /\ chatMessages[n] = Entry(assistantResponseId, "assistant",
                                          TextOf(turnRecs, "text"), FALSE)

\* the turn [thinking a, thinking b, text c, text d] has ended and is rendered
C2_Witness ==
    /\ Quiescent
    /\ Len(turnRecs) = 4
    /\ ThinkingThenText(turnRecs)
    /\ turnRecs[2].type = "thinking" /\ turnRecs[3].type = "text"

\* the turn ended on an error record
EndedOnError ==
    /\ turnRecs # <<>>
    /\ turnRecs[Len(turnRecs)].type = "error"
    /\ turnRecs[Len(turnRecs)] # SyntheticError

\* C9: assembler error truncation.  When a turn has ended on an error record,
\* no thinking entry is left open, the transcript ends with the one entry that
\* carries the failure, and that entry is the only one of its kind: nothing
\* was appended after it.
C9_ErrorTruncation ==
    (Quiescent /\ EndedOnError)
        => LET n == Len(chatMessages)
               e == Entry(<<"error", sends, 0>>, "assistant",
                          ErrorContent(turnRecs[Len(turnRecs)]), FALSE)
           IN  /\ n >= 2
               /\ chatMessages[n] = e
               /\ \A i \in 1..(n - 1) : chatMessages[i] # e
               /\ \A i \in 1..n : ~chatMessages[i].isThinking

\* the turn [thinking, error] has ended and is rendered
C9_Witness ==
    /\ Quiescent
    /\ EndedOnError
    /\ Len(turnRecs) = 2
    /\ turnRecs[1].type = "thinking"

(***************************************************************************)
(* The claims about a chat turn and an attempt that run together.          *)
(***************************************************************************)
\* C4: the transcript is discarded when the puzzle changes.  While the
\* question held is another one than the one the running or last turn was
\* started under, the transcript holds no thinking and no assistant entry.
C4_TranscriptDiscarded ==
    (GameScreenShown /\ turnQuestion # NoQuestion
                     /\ turnQuestion.id # currentQuestion.id)
        => \A i \in 1..Len(chatMessages) :
              chatMessages[i].role \notin {"thinking", "assistant"}

\* an attempt has replaced the puzzle while a turn was streaming
C4_Witness ==
    /\ GameScreenShown
    /\ turn = "stream"
    /\ turnQuestion # NoQuestion
    /\ turnQuestion.id # currentQuestion.id
    /\ lastEvent = "AttemptCorrect"

\* C5: at most one model-run call per transcript.  No message is sent, and
\* so no turn started, while a turn is running.
C5_OneTurnAtATime ==
    [][ sends' # sends => turn = "idle" /\ ~isModelStreaming ]_vars

\* a turn is streaming, the flag is set, and the model would still allow a
\* message to be sent
C5_Witness ==
    /\ turn = "stream"
    /\ isModelStreaming
    /\ sends < MaxSends
    /\ turnRecs # <<>>

(***************************************************************************)
(* The decoder's flush at the end of the stream.                           *)
(***************************************************************************)
\* the segment after the last delimiter of the body (the whole body if it
\* has no delimiter) and the segments before it
LastSegment == BodySegments[Len(BodySegments)]
FrontSegments == SubSeq(BodySegments, 1, Len(BodySegments) - 1)

\* C11: decoder trailing flush.  When the generator has returned, a final
\* segment that is not blank has been yielded as the last record, after the
\* records of the segments before it; a final segment that is blank (white
\* space or nothing after the last delimiter) has added no record.
C11_TrailingFlush ==
    gen = "done" =>
        IF IsBlank(LastSegment)
        THEN yielded = RecordsOf(FrontSegments)
        ELSE /\ yielded # <<>>
             /\ yielded[Len(yielded)] = JsonParse(Trim(LastSegment))
             /\ SubSeq(yielded, 1, Len(yielded) - 1) = RecordsOf(FrontSegments)

\* a body of two records and a third without a delimiter after it, decoded
\* to the end, the last read having ended inside the final segment
C11_Witness ==
    /\ gen = "done"
    /\ Len(BodySegments) = MaxSegs
    /\ ~IsBlank(LastSegment)
    /\ wire[Len(wire)] # STREAM_CHUNK_DELIMITER
    /\ Len(yielded) = MaxSegs
    /\ yielded[Len(yielded)] = JsonParse(Trim(LastSegment))
    /\ midCut

\* a body that ends with white space after its last delimiter, decoded to the
\* end: one record, nothing flushed
C11_WitnessBlank ==
    /\ gen = "done"
    /\ Len(BodySegments) >= 2
    /\ LastSegment = <<WS>>
    /\ Len(yielded) = Len(BodySegments) - 1

(***************************************************************************)
(* The session controller: joins, play again, failures.                    *)
(***************************************************************************)
\* a step in which POST /join has answered 2xx, to the dialog's call or to
\* the auto-rejoin
JoinAnswered ==
    /\ joinReq # NoJoin
    /\ joinReq' = NoJoin
    /\ lastEvent' \in {"JoinResolveOk", "AutoJoinResolveOk"}

C12_WitnessPlaying ==
    /\ lastEvent = "AutoJoinResolveOk"
    /\ lastResponse.stage = 2
    /\ currentUser.current_stage = 2
    /\ currentQuestion = lastResponse.question
    /\ currentQuestion \in QuestionsOf(2)
    /\ currentView = "playing"

\* a step of handlePlayAgain
PlayAgainDone == ~replayed /\ replayed'

\* POST /join is sent
JoinSent == joinReq = NoJoin /\ joinReq' # NoJoin

Extends(new, old) ==
    /\ Len(new) >= Len(old)
    /\ \A i \in 1..Len(old) :
          /\ new[i].id = old[i].id
          /\ new[i].role = old[i].role
          /\ IsPrefix(old[i].content, new[i].content)

\* C14: the transcript is append-only while the id of the held puzzle does
\* not change.  In every step that leaves GameScreen shown with a puzzle of
\* the same id, each entry stays where it is and its text only grows.
C14_AppendOnly ==
    [][ (GameScreenShown /\ GameScreenShown'
            /\ currentQuestion'.id = currentQuestion.id)
            => Extends(chatMessages', chatMessages)
      ]_vars

\* an incorrect attempt has returned the puzzle that was held, after a
\* message had been sent under it
C14_Witness ==
    /\ GameScreenShown
    /\ lastEvent = "AttemptIncorrect"
    /\ lastResponse.question = currentQuestion
    /\ turnQuestion = currentQuestion
    /\ sends >= 1
    /\ turn = "idle"

(***************************************************************************)
(* Failures of the calls of the session controller.                        *)
(***************************************************************************)
\* the session state a failed call is to leave alone
sessionVars ==
    <<currentUser, currentQuestion, currentView, persistedUserName,
      localStorage, isJoinDialogOpen>>

\* an explicit join or an attempt is sent
CallSent ==
    \/ (JoinSent /\ ~joinReq'.auto)
    \/ (attemptReq = NoAttempt /\ attemptReq' # NoAttempt)

\* an explicit join or an attempt is in flight and the step is not the
\* arrival of its 2xx response
CallOpen ==
    \/ (joinReq # NoJoin /\ ~joinReq.auto /\ ~JoinAnswered)
    \/ (attemptReq # NoAttempt /\ ~AttemptAnswered)

\* C15: a network or HTTP failure of an explicit join or of an attempt is
\* reported as a message and changes no session state.  From the sending of
\* the call to its failure the held identity with its stage, the held puzzle,
\* the view and the persisted name stay as they were; the failure puts its
\* message in the snackbar, a failed join leaving the join dialog shown and a
\* failed attempt the view "playing".
C15_FailureKeepsState ==
    [][ /\ (CallSent \/ CallOpen) => UNCHANGED sessionVars
        /\ lastEvent' = "JoinResolveFail" /\ joinReq # NoJoin
            => /\ snackbar' = "Failed to join: Failed to join."
               /\ JoinDialogShown'
               /\ currentUser' = NoUser
        /\ lastEvent' = "AttemptResolveFail" /\ attemptReq # NoAttempt
            => /\ snackbar' = "Error submitting answer: Submission failed."
               /\ currentView' = "playing"
               /\ currentUser' # NoUser /\ currentQuestion' # NoQuestion
      ]_vars

\* an attempt has failed while a chat turn was streaming
C15_Witness ==
    /\ lastEvent = "AttemptResolveFail"
    /\ snackbar = "Error submitting answer: Submission failed."
    /\ attemptReq = NoAttempt
    /\ turn = "stream"
    /\ currentView = "playing"

\* an explicit join has failed after play again, the dialog still holding
\* the name of the last session
C15_WitnessJoin ==
    /\ lastEvent = "JoinResolveFail"
    /\ joinReq = NoJoin
    /\ persistedUserName # NULL
    /\ JoinDialogShown

(***************************************************************************)
(* The ends of a chat turn.                                                *)
(***************************************************************************)
\* C16: the reader of the response body is released on every exit path of
\* the generator.  Once the generator has ended, by the end of the stream
\* ("done"), by a decode error ("threw") or because the loop of the turn left
\* it at an error record ("returned"), the lock is released; no turn has
\* ended with the reader still locked.
C16_ReaderReleased ==
    /\ gen \in {"done", "threw", "returned"} => reader = "released"
    /\ turn = "idle" => reader # "locked"

\* the loop has left the generator at an error record, a record of the same
\* read not yet parsed
C16_Witness ==
    /\ turn = "idle"
    /\ gen = "returned"
    /\ reader = "released"
    /\ parts # <<>>
    /\ EndedOnError

\* the generator has thrown at a segment that is not JSON
C16_WitnessThrew ==
    /\ turn = "idle" /\ gen = "threw" /\ reader = "released"

\* the generator has reached the end of the stream
C16_WitnessDone ==
    /\ turn = "idle" /\ gen = "done" /\ reader = "released"
    /\ turnRecs # <<>>

(***************************************************************************)
(* The view "error".                                                       *)
(***************************************************************************)
\* C17: a failure to load the models during initializeApp puts the
\* controller in the view "error", its message shown; that view is terminal:
\* no step leaves it, and no identity is held in it.
C17_ErrorTerminal ==
    [][ /\ (initPc = "models" /\ lastEvent' = "ModelsResolveFail")
            => /\ currentView' = "error"
               /\ error' # NULL
               /\ InitialScreen'
        /\ currentView = "error"
            => /\ currentView' = "error"
               /\ error' # NULL
               /\ initPc' = "idle"
        /\ currentView' = "error" => currentUser' = NoUser
      ]_vars

\* the models failed to load when initializeApp ran again after play again;
\* the snackbar has closed since
C17_Witness ==
    /\ currentView = "error"
    /\ lastEvent = "ModelsResolveFail"
    /\ replayed
    /\ sends >= 1
    /\ snackbar = NULL
    /\ InitialScreen

(***************************************************************************)
(* C18: validation precedes the network.                                   *)
(***************************************************************************)
\* a submission of the join dialog that sent nothing
JoinRejected == lastEvent' = "JoinSubmit" /\ joinReq' = NoJoin

\* C18: no POST /join is ever in flight with a name that is empty after
\* trimming or longer than 30 characters, no POST /attempt with an answer
\* that is empty after trimming, and a rejected submission of the join
\* dialog leaves the join dialog shown, in Joining, with a field-level error.
C18_ValidationFirst ==
    [][ /\ joinReq' # NoJoin
            => /\ TrimText(joinReq'.name) # ""
               /\ Len(joinReq'.name) <= 30
        /\ attemptReq' # NoAttempt => TrimText(attemptReq'.answer) # ""
        /\ JoinRejected
            => /\ currentView' = "joining"
               /\ JoinDialogShown'
               /\ inputError' # NULL
               /\ UNCHANGED <<currentUser, currentQuestion, localStorage>>
      ]_vars

\* a name of 31 characters was turned down in the dialog of a new game
C18_Witness ==
    /\ lastEvent = "JoinSubmit" /\ joinReq = NoJoin
    /\ inputError = "Name cannot exceed 30 characters."
    /\ currentView = "joining" /\ replayed

\* an answer with blanks around it is on its way as it was typed
C18_WitnessAttempt == attemptReq # NoAttempt /\ attemptReq.answer = " 42 "

\* the remembered name is on its way again
C18_WitnessAuto == joinReq # NoJoin /\ joinReq.auto

(***************************************************************************)
(* C19: a decode error in the middle of a chat turn.                       *)
(***************************************************************************)
\* the last turn ended on a throw of the stream decoder and is rendered (a
\* turn whose request failed leaves the generator of the turn before it)
DecodeErrorEnded ==
    /\ Quiescent
    /\ gen = "threw"
    /\ turnRecs # <<>> => turnRecs[Len(turnRecs)].type # "error"

\* the records of one type the turn took before the throw
HasRecords(type) == \E i \in 1..Len(turnRecs) : turnRecs[i].type = type

\* one terminal entry, after everything else, and only one
C19_OneTerminalEntry ==
    DecodeErrorEnded
        => LET n == Len(chatMessages)
           IN  /\ n >= 2
               /\ chatMessages[n] = ChatErrorEntry
               /\ \A i \in 1..(n - 1) : chatMessages[i] # ChatErrorEntry

\* no thinking entry is left open
C19_ThinkingSealed ==
    DecodeErrorEnded
        => \A i \in 1..Len(chatMessages) : ~chatMessages[i].isThinking

\* what the turn had produced is there: the user's message, a thinking entry
\* if thinking records were taken, the answer so far if text records were
C19_EntriesKept ==
    DecodeErrorEnded
        => /\ \E i \in 1..Len(chatMessages) : chatMessages[i] = UserEntry
           /\ HasRecords("thinking")
                => \E i \in 1..Len(chatMessages) :
                        /\ chatMessages[i].role = "thinking"
                        /\ chatMessages[i].id[2] = sends
           /\ HasRecords("text")
                => \E i \in 1..Len(chatMessages) :
                        chatMessages[i] =
                            Entry(assistantResponseId, "assistant",
                                  TextOf(turnRecs, "text"), FALSE)

\* C19: when a turn has ended on a decode error of the stream decoder, the
\* transcript ends with exactly one terminal assistant entry, appended after
\* the entries the turn had produced, which are kept, and no thinking entry
\* is left open.
C19_DecodeErrorConfined ==
    /\ C19_OneTerminalEntry
    /\ C19_ThinkingSealed
    /\ C19_EntriesKept

\* the turn [thinking, text] ended on a decode error and is rendered
C19_Witness ==
    /\ DecodeErrorEnded
    /\ Len(turnRecs) = 2
    /\ turnRecs[1].type = "thinking" /\ turnRecs[2].type = "text"

\* the step on which the decoder throws ends the turn and leaves the view,
\* the user and the puzzle of the controller as they are
C19_SessionUntouched ==
    [][ (gen # "threw" /\ gen' = "threw")
            => /\ UNCHANGED <<currentView, currentUser, currentQuestion>>
               /\ ~isModelStreaming'
      ]_vars

(***************************************************************************)
(* C20: every chat turn ends.                                              *)
(***************************************************************************)
\* C20: whenever a chat turn is running (the streaming flag is set), the
\* turn eventually ends: the flag is cleared, no turn is running and the
\* transcript is rendered, which is when a further message can be sent.
C20_TurnEventuallyEnds ==
    isModelStreaming
        ~> (~isModelStreaming /\ turn = "idle" /\ pending = <<>>
                /\ GameScreenShown)

\* a second message was sent after the first turn had ended, and its turn
\* has ended on a decode error
C20_Witness ==
    /\ DecodeErrorEnded
    /\ sends = 2
    /\ ~isModelStreaming

(***************************************************************************)
(* C21: the persistence store.                                             *)
(***************************************************************************)
\* the auto-rejoin of initializeApp has failed
AutoJoinFailed ==
    /\ joinReq # NoJoin /\ joinReq.auto
    /\ joinReq' = NoJoin
    /\ ~JoinAnswered

\* C21: the store is written only by a successful join, with the display
\* name of the user the join returned, and emptied only by play again and by
\* a failed auto-rejoin; every other step (a failed explicit join, an
\* attempt, a chat turn) leaves it as it is.
C21_StoreFollowsJoin ==
    [][ /\ JoinAnswered => localStorage' = currentUser'.name
        /\ localStorage' # localStorage
            => \/ JoinAnswered
               \/ (PlayAgainDone /\ localStorage' = NULL)
               \/ (AutoJoinFailed /\ localStorage' = NULL)
      ]_vars

\* the auto-rejoin that follows play again and a join has failed: the store
\* is empty again
C21_Witness ==
    /\ lastEvent = "AutoJoinResolveFail"
    /\ localStorage = NULL
    /\ sends >= 1

\* an explicit join has written the name into the empty store
C21_WitnessJoin ==
    /\ lastEvent = "JoinResolveOk"
    /\ currentUser # NoUser
    /\ localStorage = currentUser.name

\* an explicit join has failed: the store was empty and is
C21_WitnessJoinFail ==
    /\ lastEvent = "JoinResolveFail"
    /\ localStorage = NULL

(***************************************************************************)
(* C22: records of the legacy shape.                                       *)
(***************************************************************************)
\* a text record, or a record of the legacy shape: tagged "delta", or
\* without a tag the loop knows
TextLike(rec) == rec.type \in {"text", "delta", NULL}

LegacyShape(rec) == rec.type \in {"delta", NULL}

RECURSIVE FragmentsOf(_)
\* the fragments of the records, concatenated in order
FragmentsOf(recs) ==
    IF recs = <<>> THEN <<>>
    ELSE Head(recs).delta \o FragmentsOf(Tail(recs))

\* the last turn took text and legacy records only, ended with the stream
\* and is rendered
TextLikeTurnEnded ==
    /\ Quiescent
    /\ gen = "done"
    /\ turnRecs # <<>>
    /\ \A i \in 1..Len(turnRecs) : TextLike(turnRecs[i])

\* C22: a record of the legacy shape is treated as a text record.  When a
\* turn of text and legacy records has ended, the transcript ends with the
\* assistant entry of the turn, which holds the fragments of all its records
\* in order.
C22_LegacyAsText ==
    TextLikeTurnEnded
        => LET n == Len(chatMessages)
           IN  /\ n >= 2
               /\ chatMessages[n] = Entry(assistantResponseId, "assistant",
                                          FragmentsOf(turnRecs), FALSE)

\* the turn [text, delta] has ended and is rendered
C22_Witness ==
    /\ TextLikeTurnEnded
    /\ Len(turnRecs) = 2
    /\ turnRecs[1].type = "text"
    /\ turnRecs[2].type = "delta"

(***************************************************************************)
(* C23: one assistant entry per turn.                                      *)
(***************************************************************************)
\* the last turn ended with the stream, took no error record and is rendered
TurnEndedClean ==
    /\ Quiescent
    /\ gen = "done"
    /\ \A i \in 1..Len(turnRecs) : turnRecs[i].type # "error"

\* the places of the assistant entries of the last turn
AssistantPlaces ==
    { i \in 1..Len(chatMessages) :
        /\ chatMessages[i].role = "assistant"
        /\ chatMessages[i].id[2] = sends }

\* C23: when a turn without an error record has ended, the transcript holds
\* at most one assistant entry of that turn, none if the turn took no text
\* record, and the entry holds the text fragments of the turn in the order of
\* their arrival.
C23_OneAssistantEntry ==
    TurnEndedClean
        => /\ Cardinality(AssistantPlaces) <= 1
           /\ \A i \in AssistantPlaces :
                chatMessages[i] = Entry(assistantResponseId, "assistant",
                                        TextOf(turnRecs, "text"), FALSE)
           /\ HasRecords("text") => AssistantPlaces # {}

\* the turn [text, thinking, text] has ended and is rendered
C23_Witness ==
    /\ TurnEndedClean
    /\ Len(turnRecs) = 3
    /\ turnRecs[1].type = "text"
    /\ turnRecs[2].type = "thinking"
    /\ turnRecs[3].type = "text"

(***************************************************************************)
(* C24: provisional entries.                                               *)
(***************************************************************************)
\* the places of the entries with isThinking: true
ProvisionalPlaces ==
    { i \in 1..Len(chatMessages) : chatMessages[i].isThinking }

\* no turn is streaming and the transcript is rendered
NotStreaming == ~isModelStreaming /\ pending = <<>>

\* C24: at every moment at most one entry of the transcript is provisional
\* and it is a thinking entry; while no chat turn is streaming, no entry is
\* provisional.
C24_Provisional ==
    /\ Cardinality(ProvisionalPlaces) <= 1
    /\ \A i \in ProvisionalPlaces : chatMessages[i].role = "thinking"
    /\ NotStreaming => ProvisionalPlaces = {}

\* a turn of two thinking records has ended with the stream and is rendered
C24_Witness ==
    /\ TurnEndedClean
    /\ Len(turnRecs) = 2
    /\ \A i \in 1..2 : turnRecs[i].type = "thinking"

(***************************************************************************)
(* C25: the guard of handleSubmitAttempt.                                  *)
(***************************************************************************)
\* the controller is in Playing and holds an identity and a puzzle
MayAttempt ==
    /\ currentView = "playing"
    /\ currentUser # NoUser
    /\ currentQuestion # NoQuestion

\* POST /attempt is sent
AttemptSent == attemptReq = NoAttempt /\ attemptReq' # NoAttempt

C25_WitnessSent ==
    /\ lastEvent = "AttemptCall"
    /\ attemptReq # NoAttempt
    /\ currentView = "victory"

(***************************************************************************)
(* C26: initialization branches on the remembered name.                    *)
(***************************************************************************)
\* GET /models has answered
ModelsAnswered ==
    /\ initPc = "models"
    /\ initPc' # "models"
    /\ lastEvent' # "ModelsResolveFail"

\* C26: when the model metadata has arrived and a name is remembered, the
\* auto-rejoin is sent with that name and start_new = false, in the first
\* run of the initialization and in every later one; when no name is
\* remembered, no join is sent and the join dialog is shown.  No other step
\* sends an auto-rejoin.
C26_InitBranches ==
    [][ /\ (ModelsAnswered /\ localStorage # NULL)
            => /\ JoinSent
               /\ joinReq' = [name |-> localStorage, auto |-> TRUE,
                              start_new |-> FALSE]
               /\ currentView' = "attemptingAutoJoin"
        /\ (ModelsAnswered /\ localStorage = NULL)
            => /\ joinReq' = NoJoin
               /\ currentView' = "joining"
               /\ JoinDialogShown'
        /\ (JoinSent /\ joinReq'.auto) => ModelsAnswered
      ]_vars

\* the auto-rejoin of a later run of the initialization is on its way: a
\* game was played, play again was chosen and a join has succeeded
C26_Witness ==
    /\ joinReq # NoJoin /\ joinReq.auto
    /\ sends >= 1

\* a run of the initialization after play again has found no name
C26_WitnessNoName ==
    /\ lastEvent = "ModelsResolveNoName"
    /\ replayed

(***************************************************************************)
(* C27: the model metadata is loaded once.                                 *)
(***************************************************************************)
\* initializeApp starts and sends GET /models
ModelsRequested == initPc = "idle" /\ initPc' = "models"

\* C27: the controller is constructed with the first run of the
\* initialization under way; after that no step starts the initialization
\* again or sends GET /models.
C27_LoadedOnce == [][~ModelsRequested]_vars

\* the second GET /models is on its way: play again was chosen
C27_Witness ==
    /\ initPc = "models"
    /\ replayed
    /\ lastEvent = "InitEffect"

\* the third: the join after play again has succeeded
C27_WitnessJoin ==
    /\ initPc = "models"
    /\ ~replayed
    /\ lastEvent = "InitEffect"
    /\ lastResponse.kind = "join"
    /\ localStorage # NULL

(***************************************************************************)
(* C28: nothing is repeated by the controller on its own.                  *)
(***************************************************************************)
\* the step is the user's: a join is submitted, an answer is submitted, play
\* again is chosen
UserIntent == lastEvent' \in {"JoinSubmit", "AttemptSubmit", "PlayAgain"}
                /\ lastEvent' # lastEvent

\* C28: once an explicit join has succeeded, every step up to the next step
\* of the user leaves the controller in Playing or Victory with the identity
\* it has adopted and sends no POST /join.
C28_NoRepeat ==
    [][ (lastEvent = "JoinResolveOk" /\ ~UserIntent)
            => /\ currentView' \in {"playing", "victory"}
               /\ currentUser' = currentUser
               /\ currentUser' # NoUser
               /\ joinReq' = NoJoin
               /\ initPc' = "idle"
      ]_vars

\* the join that followed play again has succeeded
C28_Witness ==
    /\ lastEvent = "JoinResolveOk"
    /\ currentUser # NoUser
    /\ ~EffectsFlushed

\* the join the user did not ask for is on its way
C28_WitnessRejoin ==
    /\ joinReq # NoJoin /\ joinReq.auto
    /\ lastResponse.kind = "join"
    /\ lastEvent = "ModelsResolveAutoJoin"

(***************************************************************************)
(* C29: identity and view.                                                 *)
(***************************************************************************)
\* C29: an identity is held exactly when the view is playing or victory; it
\* is null in the views loading, attemptingAutoJoin, joining and error.
C29_IdentityFollowsView ==
    /\ currentView \in {"loading", "attemptingAutoJoin", "joining",
                        "playing", "victory", "error"}
    /\ currentUser # NoUser <=> currentView \in {"playing", "victory"}

\* play again has dropped the identity of a user who had won by an attempt
C29_Witness ==
    /\ lastEvent = "PlayAgain"
    /\ lastResponse.kind = "attempt"
    /\ currentView = "joining"
    /\ currentUser = NoUser

\* the identity is held in Victory, after the last correct attempt
C29_WitnessVictory ==
    /\ lastEvent = "AttemptCorrect"
    /\ currentView = "victory"
    /\ currentUser # NoUser

(***************************************************************************)
(* C30: a puzzle is held in Playing.                                       *)
(***************************************************************************)
\* C30: whatever the well-typed responses of the joins and the attempts,
\* the controller is never in the view playing without a puzzle.
C30_PuzzleInPlaying ==
    currentView = "playing" => currentQuestion # NoQuestion

\* a correct attempt that was not the last has been answered
C30_Witness ==
    /\ lastEvent = "AttemptCorrect"
    /\ ~lastResponse.victory
    /\ currentView = "playing"
====
